---- MODULE Spec2Model ----
(***************************************************************************)
(* Command-dispatch engine of claude-agent-squad: the jump code parser,    *)
(* the JumpCodeRegistry (python_agent_squad/jump_codes.py), the            *)
(* EnhancedJumpCodeProcessor (python_agent_squad/enhanced_jump_codes.py),  *)
(* SequentialJumpCodes and JumpCodeMacros                                  *)
(* (python_agent_squad/advanced_jump_codes.py).                            *)
(*                                                                         *)
(* A Python str is a sequence of one-character strings.  The character     *)
(* U+00B2 (superscript two) is written "SUP2".                             *)
(***************************************************************************)
EXTENDS Integers, Sequences, FiniteSets, TLC

VARIABLES
    codes,          \* JumpCodeRegistry.codes : name -> JumpCode
    aliases,        \* JumpCodeRegistry.aliases : alias -> canonical name
    last,           \* the last JumpCodeRegistry call and its outcome
    code_string,    \* the string handed to a parser
    parsed,         \* what the parser answered for code_string
    ecodes,         \* EnhancedJumpCodeRegistry.codes : pattern -> handler
    ealiases,       \* EnhancedJumpCodeRegistry.aliases
    macros,         \* EnhancedJumpCodeRegistry.macros : name -> commands
    ehistory,       \* EnhancedJumpCodeRegistry.execution_history
    elast,          \* the last EnhancedJumpCodeProcessor call and its outcome
    sequence_memory,\* SequentialJumpCodes.sequence_memory
    clock,          \* datetime.now(), counted in calls of execute_sequence
    macro_defs,     \* JumpCodeMacros.macros : name -> macro
    mlast,          \* the last JumpCodeMacros call and its outcome
    substitution,   \* a call of _substitute_params: code, params, result
    parallel,       \* a call of EnhancedAgentSquad._parallel_handler
    threads,        \* the threads inside SequentialJumpCodes._add_to_memory
    mwlast,         \* the last JumpCodeMiddleware call and its outcome
    saved           \* the files save_macros wrote : filename -> document

vars == <<codes, aliases, last, code_string, parsed,
          ecodes, ealiases, macros, ehistory, elast,
          sequence_memory, clock, macro_defs, mlast, substitution,
          parallel, threads, mwlast, saved>>

registryVars == <<codes, aliases, last>>
parserVars   == <<code_string, parsed>>
enhancedVars == <<ecodes, ealiases, macros, ehistory, elast>>
sequenceVars == <<sequence_memory, clock>>
macroVars    == <<macro_defs, mlast, substitution>>
batchVars      == <<parallel, threads>>
middlewareVars == <<mwlast, saved>>

----------------------------------------------------------------------------
(* Characters and the str methods the parsers use                          *)

SUP2 == "SUP2"

LowerLetters == <<"a","b","c","d","e","f","g","h","i","j","k","l","m",
                  "n","o","p","q","r","s","t","u","v","w","x","y","z">>
UpperLetters == <<"A","B","C","D","E","F","G","H","I","J","K","L","M",
                  "N","O","P","Q","R","S","T","U","V","W","X","Y","Z">>
DecimalDigits == <<"0","1","2","3","4","5","6","7","8","9">>

Range(s) == {s[i] : i \in DOMAIN s}

Letters == Range(LowerLetters) \cup Range(UpperLetters)

IsLetter(c) == c \in Letters

\* str.isdecimal on one character: the characters int() and float() accept
IsDecimalChar(c) == c \in Range(DecimalDigits)

\* str.isdigit on one character: the decimal digits and the digit-like
\* characters such as U+00B2
IsDigitChar(c) == IsDecimalChar(c) \/ c = SUP2

\* the regular expression class \w on str patterns
WordChars == Letters \cup Range(DecimalDigits) \cup {SUP2, "_"}

IsWordChar(c) == c \in WordChars

IsSpaceChar(c) == c = " "

\* str.isdigit: non-empty and every character a digit
isdigit(s) == Len(s) > 0 /\ \A i \in DOMAIN s : IsDigitChar(s[i])

LowerChar(c) ==
    IF c \in Range(UpperLetters)
    THEN LowerLetters[CHOOSE i \in DOMAIN UpperLetters : UpperLetters[i] = c]
    ELSE c

\* str.lower
lower(s) == [i \in DOMAIN s |-> LowerChar(s[i])]

Min(S) == CHOOSE i \in S : \A j \in S : i <= j
Max(S) == CHOOSE i \in S : \A j \in S : j <= i

\* s without its first lo-1 and last Len(s)-hi characters
Between(s, keep) ==
    IF keep = {} THEN <<>> ELSE SubSeq(s, Min(keep), Max(keep))

\* str.strip
strip(s) == Between(s, {i \in DOMAIN s : ~IsSpaceChar(s[i])})

MinOrZero(S) == IF S = {} THEN 0 ELSE Min(S)

\* index of the first occurrence of c in s, 0 when there is none
find(s, c) == MinOrZero({i \in DOMAIN s : s[i] = c})

\* s cut at index i > 0: the text before it and the text after it
Before(s, i) == SubSeq(s, 1, i - 1)
After(s, i)  == SubSeq(s, i + 1, Len(s))

\* str.split(sep) for a one-character separator
RECURSIVE split(_, _)
split_at(s, sep, i) ==
    IF i = 0 THEN <<s>> ELSE <<Before(s, i)>> \o split(After(s, i), sep)

split(s, sep) == split_at(s, sep, find(s, sep))

\* str.replace(c, '', 1)
remove_at(s, i) == IF i = 0 THEN s ELSE Before(s, i) \o After(s, i)

replace_first(s, c) == remove_at(s, find(s, c))

\* length of the longest prefix of s made of \w characters
PrefixBefore(s, stops) == IF stops = {} THEN Len(s) ELSE Min(stops) - 1

WordPrefixLen(s) == PrefixBefore(s, {i \in DOMAIN s : ~IsWordChar(s[i])})

DigitVal(c) == (CHOOSE i \in DOMAIN DecimalDigits : DecimalDigits[i] = c) - 1

RECURSIVE DecimalValue(_)
DecimalValue(s) ==
    IF s = <<>> THEN 0
    ELSE 10 * DecimalValue(SubSeq(s, 1, Len(s)-1)) + DigitVal(s[Len(s)])

RECURSIVE NormFloat(_, _)
NormFloat(m, k) ==
    IF k > 0 /\ m % 10 = 0 THEN NormFloat(m \div 10, k - 1) ELSE <<m, k>>

\* A typed parameter value: <<"bool", b>>, <<"int", n>>, <<"str", s>>,
\* <<"float", <<m, k>>>> for the number m / 10^k, or the marker ValueError
\* when the conversion raises.
ValueError == <<"ValueError", 0>>

\* int(s) for a string that passed isdigit
int(s) ==
    IF \A i \in DOMAIN s : IsDecimalChar(s[i])
    THEN <<"int", DecimalValue(s)>>
    ELSE ValueError

\* float(s) for a string that is digits around one decimal point
float(s) ==
    IF \A i \in DOMAIN s : IsDecimalChar(s[i]) \/ s[i] = "."
    THEN <<"float", NormFloat(DecimalValue(replace_first(s, ".")),
                              Len(s) - find(s, "."))>>
    ELSE ValueError

----------------------------------------------------------------------------
(* Dictionaries                                                            *)

EmptyDict == <<>>

\* d[k] = v
Put(d, k, v) == [x \in (DOMAIN d) \cup {k} |-> IF x = k THEN v ELSE d[x]]

\* {**a, **b}
Merge(a, b) ==
    [x \in (DOMAIN a) \cup (DOMAIN b) |-> IF x \in DOMAIN b THEN b[x] ELSE a[x]]

----------------------------------------------------------------------------
(* JumpCodeRegistry._parse_jump_code                                       *)

S_true  == <<"t","r","u","e">>
S_false == <<"f","a","l","s","e">>

\* the typed value of one value string, first matching rule; low is
\* value.lower()
coerce_lowered(value, low) ==
    IF low \in {S_true, S_false}
        THEN <<"bool", low = S_true>>
    ELSE IF isdigit(value)
        THEN int(value)
    ELSE IF isdigit(replace_first(value, "."))
        THEN float(value)
    ELSE <<"str", value>>

coerce(value) == coerce_lowered(value, lower(value))

\* parameters[key] = typed; ok is FALSE when the conversion raised
put_typed(parameters, key, typed) ==
    IF typed = ValueError
    THEN [ok |-> FALSE, d |-> parameters]
    ELSE [ok |-> TRUE, d |-> Put(parameters, key, typed)]

\* one stripped token put into the parameters dict; eq is the index of
\* its first '=' (0 when it has none)
parse_param_at(parameters, param, eq) ==
    IF eq > 0
    THEN put_typed(parameters, strip(Before(param, eq)),
                   coerce(strip(After(param, eq))))
    ELSE [ok |-> TRUE, d |-> Put(parameters, param, <<"bool", TRUE>>)]

parse_stripped_param(parameters, param) ==
    parse_param_at(parameters, param, find(param, "="))

parse_param(parameters, token) ==
    parse_stripped_param(parameters, strip(token))

\* the loop over params_str.split(',')
RECURSIVE parse_params(_, _)
parse_rest(next, tokens) ==
    IF ~next.ok THEN next ELSE parse_params(next.d, tokens)

parse_params(parameters, tokens) ==
    IF tokens = <<>> THEN [ok |-> TRUE, d |-> parameters]
    ELSE parse_rest(parse_param(parameters, Head(tokens)), Tail(tokens))

NoCode == <<>>

ParseResult(err, code, parameters) ==
    [err |-> err, code |-> code, parameters |-> parameters]

\* the pattern ^(\w+)(?::(.+))?$ : the index at which group 1 ends, 0 when
\* the string does not match; n is the length of the \w prefix
match_after(s, n) ==
    IF n >= 1 /\ (n = Len(s) \/ (s[n+1] = ":" /\ Len(s) >= n + 2))
    THEN n ELSE 0

MatchAnchored(s) == match_after(s, WordPrefixLen(s))

\* lines 147-170: the parameters of the matched groups
parse_result(code, parameters) ==
    IF ~parameters.ok
    THEN ParseResult("ConversionError", NoCode, EmptyDict)
    ELSE ParseResult("none", code, parameters.d)

parse_groups(code, params_str) ==
    parse_result(code, IF params_str = <<>>
                       THEN [ok |-> TRUE, d |-> EmptyDict]
                       ELSE parse_params(EmptyDict, split(params_str, ",")))

parse_match(body, n) ==
    IF n = 0 THEN ParseResult("InvalidFormat", NoCode, EmptyDict)
    ELSE parse_groups(SubSeq(body, 1, n), SubSeq(body, n + 2, Len(body)))

parse_body(body) == parse_match(body, MatchAnchored(body))

_parse_jump_code(s) ==
    parse_body(IF Len(s) > 0 /\ s[1] = "@" THEN Tail(s) ELSE s)

----------------------------------------------------------------------------
(* EnhancedJumpCodeProcessor.parse_jump_code                               *)

S_value == <<"v","a","l","u","e">>

enhanced_param_at(params, param, eq) ==
    IF eq > 0
    THEN Put(params, strip(Before(param, eq)), <<"str", strip(After(param, eq))>>)
    ELSE Put(params, S_value, <<"str", strip(param)>>)

enhanced_param(params, param) ==
    enhanced_param_at(params, param, find(param, "="))

RECURSIVE enhanced_params(_, _)
enhanced_params(params, tokens) ==
    IF tokens = <<>> THEN params
    ELSE enhanced_params(enhanced_param(params, Head(tokens)), Tail(tokens))

\* the pattern @(\w+)(?::(.+))? matched at the start of the string only;
\* n is the length of the \w prefix of the text after '@'
enhanced_groups(name, params_str) ==
    ParseResult("none", name,
                IF params_str = <<>> THEN EmptyDict
                ELSE enhanced_params(EmptyDict, split(params_str, ",")))

enhanced_match(body, n) ==
    IF n = 0 THEN ParseResult("InvalidFormat", NoCode, EmptyDict)
    ELSE enhanced_groups(SubSeq(body, 1, n),
                         IF Len(body) >= n + 2 /\ body[n+1] = ":"
                         THEN SubSeq(body, n + 2, Len(body)) ELSE <<>>)

enhanced_body(body) == enhanced_match(body, WordPrefixLen(body))

parse_jump_code(s) ==
    IF ~(Len(s) > 0 /\ s[1] = "@")
    THEN ParseResult("MissingSigil", NoCode, EmptyDict)
    ELSE enhanced_body(Tail(s))

----------------------------------------------------------------------------
(* JumpCodeRegistry                                                        *)

S_status == <<"s","t","a","t","u","s">>
S_stat   == <<"s","t","a","t">>
S_s      == <<"s">>
S_help   == <<"h","e","l","p">>
S_h      == <<"h">>
S_qmark  == <<"?">>
S_list   == <<"l","i","s","t">>
S_ls     == <<"l","s">>
S_l      == <<"l">>
S_filter == <<"f","i","l","t","e","r">>
S_context == <<"c","o","n","t","e","x","t">>
S_x      == <<"x">>
S_y      == <<"y">>
S_z      == <<"z">>
S_w      == <<"w">>
S_k      == <<"k">>
S_m      == <<"m">>
S_1x     == <<"1","x">>
S_nope   == <<"n","o","p","e">>

\* the dataclass JumpCode (description left out: no operation reads it
\* but the help text)
JumpCode(code, handler, parameters, als, context_required) ==
    [code |-> code, handler |-> handler, parameters |-> parameters,
     aliases |-> als, context_required |-> context_required]

\* the pattern ^[a-zA-Z_]\w*$
IsIdentifier(s) ==
    /\ Len(s) >= 1
    /\ IsLetter(s[1]) \/ s[1] = "_"
    /\ \A i \in DOMAIN s : IsWordChar(s[i])

RECURSIVE register_aliases(_, _, _)
register_aliases(al, names, code) ==
    IF names = <<>> THEN al
    ELSE register_aliases(Put(al, Head(names), code), Tail(names), code)

\* JumpCodeRegistry.register: the pair <<codes, aliases>> after the call
register(cs, al, jump_code) ==
    <<Put(cs, jump_code.code, jump_code),
      register_aliases(al, jump_code.aliases, jump_code.code)>>

Remove(d, k) == [x \in (DOMAIN d) \ {k} |-> d[x]]

RECURSIVE remove_aliases(_, _)
remove_aliases(al, names) ==
    IF names = <<>> THEN al
    ELSE remove_aliases(IF Head(names) \in DOMAIN al
                        THEN Remove(al, Head(names)) ELSE al,
                        Tail(names))

\* JumpCodeRegistry.unregister: <<codes, aliases, returned value>>
unregister(cs, al, code) ==
    IF code \in DOMAIN cs
    THEN <<Remove(cs, code), remove_aliases(al, cs[code].aliases), TRUE>>
    ELSE <<cs, al, FALSE>>

\* JumpCodeRegistry._initialize_core_codes
CoreCodes ==
    <<JumpCode(S_status, "_status_handler", EmptyDict, <<S_s, S_stat>>, <<>>),
      JumpCode(S_help, "_help_handler",
               Put(EmptyDict, S_filter, <<"str", <<>> >>),
               <<S_h, S_qmark>>, <<>>),
      JumpCode(S_list, "_list_handler", EmptyDict, <<S_ls, S_l>>, <<>>)>>

RECURSIVE register_all(_, _, _)
register_all(cs, al, jcs) ==
    IF jcs = <<>> THEN <<cs, al>>
    ELSE LET r == register(cs, al, Head(jcs))
         IN  register_all(r[1], r[2], Tail(jcs))

\* _validate_context giving up at the first missing key
_validate_context_first(required, context) ==
    LET absent == {i \in DOMAIN required : required[i] \notin DOMAIN context}
    IN  IF absent = {} THEN <<>>
        ELSE <<required[CHOOSE i \in absent : \A j \in absent : i <= j]>>

\* JumpCodeRegistry._validate_context: the missing keys, in the order of
\* the required list
RECURSIVE _validate_context(_, _)
_validate_context(required, context) ==
    IF required = <<>> THEN <<>>
    ELSE (IF Head(required) \in DOMAIN context THEN <<>> ELSE <<Head(required)>>)
         \o _validate_context(Tail(required), context)

\* the merge with its operands swapped: defaults over parsed parameters
final_params_defaults_win(jump_code, params) ==
    Merge(params, jump_code.parameters)

\* the merge of line 121: defaults first, parsed parameters over them
final_params(jump_code, params) == Merge(jump_code.parameters, params)

\* truthiness of a typed value
Truthy(v) ==
    \/ v[1] = "bool" /\ v[2]
    \/ v[1] = "int" /\ v[2] # 0
    \/ v[1] = "float" /\ v[2][1] # 0
    \/ v[1] = "str" /\ v[2] # <<>>

\* whether the body of a handler raises.  _help_handler calls filter.lower()
\* on a truthy filter, which only a str has; a handler registered from
\* outside raises when the environment says so (fault).
HandlerRaises(handler, params, fault) ==
    CASE handler = "_status_handler" -> FALSE
      [] handler = "_list_handler"   -> FALSE
      [] handler = "_help_handler"   ->
            /\ S_filter \in DOMAIN params
            /\ Truthy(params[S_filter])
            /\ params[S_filter][1] # "str"
      [] OTHER -> fault

\* what a call of execute ends in: error is the kind of the exception
\* raised inside the try block ("none" when the handler's value is
\* returned), raised tells whether an exception leaves the call: the
\* except clause logs and re-raises (lines 127-129)
Outcome(error, code_name, handler, params, missing) ==
    [error |-> error, raised |-> (error # "none"), code_name |-> code_name,
     handler |-> handler, params |-> params, missing |-> missing]

\* lines 123-125: the handler called with context and the merged
\* parameters as keyword arguments
call_handler(jump_code, code_name, fp, fault) ==
    IF S_context \in DOMAIN fp
    THEN Outcome("TypeError", code_name, "none", EmptyDict, <<>>)
    ELSE IF HandlerRaises(jump_code.handler, fp, fault)
    THEN Outcome("HandlerError", code_name, jump_code.handler, fp, <<>>)
    ELSE Outcome("none", code_name, jump_code.handler, fp, <<>>)

\* lines 116-121: context validation, then the merge
validated(jump_code, code_name, params, missing, fault) ==
    IF missing # <<>>
    THEN Outcome("MissingContext", code_name, "none", EmptyDict, missing)
    ELSE call_handler(jump_code, code_name, final_params(jump_code, params), fault)

\* lines 110-118
lookup(cs, code_name, params, context, fault) ==
    IF code_name \notin DOMAIN cs
    THEN Outcome("UnknownJumpCode", code_name, "none", EmptyDict, <<>>)
    ELSE validated(cs[code_name], code_name, params,
                   _validate_context(cs[code_name].context_required, context),
                   fault)

\* lines 106-108
resolve_alias(al, code_name) ==
    IF code_name \in DOMAIN al THEN al[code_name] ELSE code_name

dispatch(cs, al, p, context, fault) ==
    IF p.err # "none"
    THEN Outcome(p.err, NoCode, "none", EmptyDict, <<>>)
    ELSE lookup(cs, resolve_alias(al, p.code), p.parameters, context, fault)

\* JumpCodeRegistry.execute.  In the outcome, handler is the handler whose
\* body ran ("none" when none did) and params the keyword arguments it ran
\* with.
execute(cs, al, s, context, fault) ==
    dispatch(cs, al, _parse_jump_code(s), context, fault)

----------------------------------------------------------------------------
(* EnhancedJumpCodeRegistry and EnhancedJumpCodeProcessor                  *)

\* EnhancedJumpCodeRegistry.codes is a dict read in insertion order: a
\* sequence of <<pattern, handler>> pairs with distinct patterns.
PatternIndex(ec, pattern) ==
    IF \E i \in DOMAIN ec : ec[i][1] = pattern
    THEN CHOOSE i \in DOMAIN ec : ec[i][1] = pattern
    ELSE 0

\* EnhancedJumpCodeRegistry.register: <<codes, aliases>> after the call
enhanced_register(ec, ea, pattern, handler, als) ==
    LET i == PatternIndex(ec, pattern)
    IN  <<IF i = 0 THEN Append(ec, <<pattern, handler>>)
          ELSE [ec EXCEPT ![i] = <<pattern, handler>>],
          register_aliases(ea, als, pattern)>>

\* re.match(pattern, code) for a pattern without regular expression
\* operators: the pattern is a prefix of code
re_match(pattern, code) ==
    /\ Len(pattern) <= Len(code)
    /\ SubSeq(code, 1, Len(pattern)) = pattern

\* EnhancedJumpCodeRegistry.get_handler: the handler of the first pattern,
\* in insertion order, that matches; "none" for None
get_handler(ec, ea, code) ==
    LET c    == IF code \in DOMAIN ea THEN ea[code] ELSE code
        hits == {i \in DOMAIN ec : re_match(ec[i][1], c)}
    IN  IF hits = {} THEN "none"
        ELSE ec[CHOOSE i \in hits : \A j \in hits : i <= j][2]

\* depth of nested execute_macro calls at which the interpreter gives up
RecursionLimit == 3

\* a JumpCodeResult, or the exception that leaves the call: raised is
\* "none" when a JumpCodeResult is returned; invoked lists the handlers
\* whose bodies ran; appended counts the history records written
EResult(raised, success, error, invoked) ==
    [raised |-> raised, success |-> success, error |-> error,
     invoked |-> invoked, appended |-> 0]

\* Both branches of execute_async that follow a handler call or an
\* exception write self.execution_history, an attribute the processor
\* does not have (__init__, lines 68-71): AttributeError leaves the call.
RECURSIVE execute_async(_, _, _, _, _, _)
RECURSIVE execute_macro(_, _, _, _, _, _)
execute_async(ec, ea, mc, code, fault, depth) ==
    LET p == parse_jump_code(code)
    IN  IF p.err # "none"
        THEN EResult("AttributeError", FALSE, p.err, <<>>)
        ELSE
        LET handler == get_handler(ec, ea, <<"@">> \o p.code)
        IN  IF handler = "none"
            THEN IF p.code \in DOMAIN mc
                 THEN LET r == execute_macro(ec, ea, mc, p.code, fault, depth + 1)
                      IN  IF r.raised # "none"
                          THEN EResult("AttributeError", FALSE, r.error, r.invoked)
                          ELSE r
                 ELSE EResult("none", FALSE, "UnknownJumpCode", <<>>)
            ELSE EResult("AttributeError", FALSE,
                         IF fault THEN "HandlerError" ELSE "none", <<handler>>)

RECURSIVE run_macro(_, _, _, _, _, _, _)
run_macro(ec, ea, mc, commands, fault, depth, invoked) ==
    IF commands = <<>> THEN EResult("none", TRUE, "none", invoked)
    ELSE LET r == execute_async(ec, ea, mc, Head(commands), fault, depth)
         IN  IF r.raised # "none"
             THEN EResult(r.raised, FALSE, r.error, invoked \o r.invoked)
             ELSE IF ~r.success
             THEN EResult("none", FALSE, "MacroFailed", invoked \o r.invoked)
             ELSE run_macro(ec, ea, mc, Tail(commands), fault, depth,
                            invoked \o r.invoked)

execute_macro(ec, ea, mc, macro_name, fault, depth) ==
    IF depth > RecursionLimit
    THEN EResult("RecursionError", FALSE, "RecursionError", <<>>)
    ELSE IF macro_name \notin DOMAIN mc
    THEN EResult("none", FALSE, "UnknownMacro", <<>>)
    ELSE run_macro(ec, ea, mc, mc[macro_name], fault, depth, <<>>)

\* EnhancedJumpCodeProcessor.execute_parallel: asyncio.gather without
\* return_exceptions hands the first exception of a task to the caller;
\* failing is the index of the task whose exception that is, 0 when every
\* task returned
execute_parallel(ec, ea, mc, cmds, fault, failing) ==
    LET results == [i \in DOMAIN cmds |->
                       execute_async(ec, ea, mc, cmds[i], fault, 0)]
    IN  IF failing = 0
        THEN [raised |-> "none", results |-> results]
        ELSE [raised |-> results[failing].raised, results |-> <<>>]

\* the attributes EnhancedJumpCodeProcessor.__init__ sets (lines 69-71)
ProcessorAttributes == {"registry", "context", "executor"}

\* get_execution_history: the read of _processor.execution_history; the
\* list of that name is an attribute of the registry (line 36)
get_execution_history(history) ==
    IF "execution_history" \in ProcessorAttributes
    THEN [raised |-> "none", returned |-> history]
    ELSE [raised |-> "AttributeError", returned |-> <<>>]

----------------------------------------------------------------------------
(* EnhancedAgentSquad.process_jump_code                                    *)

\* EnhancedAgentSquad.current_context as __init__ builds it
current_context ==
    [key \in {"session_id", "agents", "tasks", "results"} |-> "v"]

\* the dict the except clause returns, or the handler's value: error is
\* whether result.get('error') == True.  The built-in handlers return dicts
\* without an 'error' key.
process_result(outcome) ==
    [error |-> outcome.raised, kind |-> outcome.error,
     handler |-> outcome.handler, params |-> outcome.params]

process_jump_code(cs, al, s, fault) ==
    process_result(execute(cs, al, s, current_context, fault))

----------------------------------------------------------------------------
(* Exception messages: str(e) for the exceptions execute raises            *)

M_missing_context == <<"M","i","s","s","i","n","g"," ","r","e","q","u","i","r","e","d"," ","c","o","n","t","e","x","t">>
M_unknown         == <<"U","n","k","n","o","w","n"," ","j","u","m","p"," ","c","o","d","e">>
M_invalid_format  == <<"I","n","v","a","l","i","d"," ","j","u","m","p"," ","c","o","d","e"," ","f","o","r","m","a","t">>
\* int() names the value after this text, float() has a text of its own;
\* neither holds one of the critical texts
M_conversion      == <<"i","n","v","a","l","i","d"," ","l","i","t","e","r","a","l"," ","f","o","r"," ","i","n","t","(",")"," ","w","i","t","h"," ","b","a","s","e"," ","1","0">>
M_multiple_values == <<"g","o","t"," ","m","u","l","t","i","p","l","e"," ","v","a","l","u","e","s"," ","f","o","r"," ","k","e","y","w","o","r","d"," ","a","r","g","u","m","e","n","t"," ","'","c","o","n","t","e","x","t","'">>
M_no_lower        == <<"'","i","n","t","'"," ","o","b","j","e","c","t"," ","h","a","s"," ","n","o"," ","a","t","t","r","i","b","u","t","e"," ","'","l","o","w","e","r","'">>
M_colon           == <<":", " ">>

\* t in s, for two str
contains(s, t) ==
    \E i \in 0..(Len(s) - Len(t)) : SubSeq(s, i + 1, i + Len(t)) = t

\* ', '.join(names)
RECURSIVE join(_)
join(names) ==
    IF names = <<>> THEN <<>>
    ELSE IF Len(names) = 1 THEN <<Head(names)>>
    ELSE <<Head(names), ",", " ">> \o join(Tail(names))

\* what a handler registered from outside does when it is called: it
\* raises an exception with a message, or it returns a value; a value is
\* a dict or something else (isdict); mutation is what it does to the
\* list it finds under context['previous_results'] ("none", "append",
\* "pop")
EffectOn(raises, message, isdict, d, mutation) ==
    [raises |-> raises, message |-> message,
     value |-> [isdict |-> isdict, d |-> d], mutation |-> mutation]

Effect(raises, message, isdict, d) ==
    EffectOn(raises, message, isdict, d, "none")

NoValue == [isdict |-> FALSE, d |-> EmptyDict]

\* str(e) of the exception an execute call ended in (lines 112, 142, 176;
\* int(), the keyword call and filter.lower() raise their own)
error_message(outcome, s, effect) ==
    CASE outcome.error = "UnknownJumpCode" ->
            M_unknown \o M_colon \o outcome.code_name
      [] outcome.error = "MissingContext" ->
            M_missing_context \o M_colon \o join(outcome.missing)
      [] outcome.error = "InvalidFormat" ->
            M_invalid_format \o M_colon
              \o (IF Len(s) > 0 /\ s[1] = "@" THEN Tail(s) ELSE s)
      [] outcome.error = "ConversionError" -> M_conversion
      [] outcome.error = "TypeError" -> M_multiple_values
      [] outcome.error = "HandlerError" ->
            IF outcome.handler = "_help_handler" THEN M_no_lower
            ELSE effect.message
      [] OTHER -> <<>>

\* the value a handler returns: the built-in handlers build their dicts
\* (lines 179-224), a handler registered from outside returns what the
\* environment says; now is datetime.now()
handler_value(handler, cs, al, context, params, effect, now) ==
    CASE handler = "_status_handler" ->
            [isdict |-> TRUE,
             d |-> [key \in {"type", "total_codes", "total_aliases",
                             "context_keys", "timestamp"} |->
                    CASE key = "type" -> <<"str", "status">>
                      [] key = "total_codes" -> <<"int", Cardinality(DOMAIN cs)>>
                      [] key = "total_aliases" -> <<"int", Cardinality(DOMAIN al)>>
                      [] key = "context_keys" -> <<"keys", DOMAIN context>>
                      [] OTHER -> <<"str", now>>]]
      [] handler = "_help_handler" ->
            [isdict |-> TRUE,
             d |-> [key \in {"type", "codes", "filter"} |->
                    CASE key = "type" -> <<"str", "help">>
                      [] key = "codes" -> <<"keys", DOMAIN cs>>
                      [] OTHER -> params[S_filter]]]
      [] handler = "_list_handler" ->
            [isdict |-> TRUE,
             d |-> [key \in {"type", "codes"} |->
                    IF key = "type" THEN <<"str", "list">>
                    ELSE <<"keys", DOMAIN cs>>]]
      [] OTHER -> effect.value
----------------------------------------------------------------------------
(* SequentialJumpCodes (advanced_jump_codes.py)                            *)

\* Keep last 100 sequences
max_memory_size == 100

protected_keys == {"sequence_id", "sequence_position", "previous_results"}

\* SequentialJumpCodes._should_abort_sequence: the message holds one of
\* the critical texts; both remaining paths return False
_should_abort_sequence(error_msg, position, total) ==
    \/ contains(error_msg, M_missing_context)
    \/ contains(error_msg, M_unknown)
    \/ contains(error_msg, M_invalid_format)

\* _add_to_memory that stops recording when the memory is full
_add_to_memory_keep_oldest(memory, record) ==
    IF Len(memory) >= max_memory_size THEN memory ELSE Append(memory, record)

\* SequentialJumpCodes._add_to_memory: sequence_memory after the call
_add_to_memory(memory, record) ==
    IF Len(memory) + 1 > max_memory_size
    THEN SubSeq(Append(memory, record),
                Len(memory) + 2 - max_memory_size, Len(memory) + 1)
    ELSE Append(memory, record)

\* the slice s[start:] of a Python list: a negative start counts from the
\* end, and a start outside the list is clipped
slice_from(s, start) ==
    LET first == IF start < 0
                 THEN (IF Len(s) + start < 0 THEN 0 ELSE Len(s) + start)
                 ELSE (IF start > Len(s) THEN Len(s) ELSE start)
    IN  SubSeq(s, first + 1, Len(s))

\* SequentialJumpCodes.get_history: sequence_memory[-limit:]
get_history(memory, limit) == slice_from(memory, 0 - limit)

\* lines 31-32: the position (0-based) and a copy of the results so far
position_context(shared_context, position, results) ==
    [key \in (DOMAIN shared_context) \cup {"sequence_position", "previous_results"} |->
        IF key = "sequence_position" THEN <<"int", position>>
        ELSE IF key = "previous_results" THEN <<"list", results>>
        ELSE shared_context[key]]

\* the update of lines 47-52 writing every key of the result
merge_result_unprotected(shared_context, value) ==
    IF value.isdict THEN Merge(shared_context, value.d) ELSE shared_context

\* lines 47-52: the keys of a dict result written into the shared context,
\* the protected keys left alone
merge_result(shared_context, value) ==
    IF value.isdict
    THEN Merge(shared_context,
               [key \in (DOMAIN value.d) \ protected_keys |-> value.d[key]])
    ELSE shared_context

\* a record that carries both fields whatever the outcome
StepRecordBoth(code, success, result, error, position, now) ==
    [code |-> code, success |-> success, result |-> result, error |-> error,
     position |-> position, timestamp |-> now]

\* the per-step record: lines 38-44 for a step that returned (it has a
\* result and no error), lines 56-62 for a step that raised (it has an
\* error and no result)
StepRecord(code, success, result, error, position, now) ==
    IF success
    THEN [code |-> code, success |-> TRUE, result |-> result,
          position |-> position, timestamp |-> now]
    ELSE [code |-> code, success |-> FALSE, error |-> error,
          position |-> position, timestamp |-> now]

\* the loop variables: shared_context, results, whether the loop has hit
\* break, and the context each handler call was given (seen)
LoopState(shared_context, results, stopped, seen) ==
    [shared_context |-> shared_context, results |-> results,
     stopped |-> stopped, seen |-> seen]

\* lines 54-67: the step raised
step_failed(st, context, code, position, total, error_msg, now) ==
    LoopState(context,
              Append(st.results,
                     StepRecord(code, FALSE, NoValue, error_msg, position, now)),
              _should_abort_sequence(error_msg, position, total),
              Append(st.seen, context))

\* a step that counts an error-marked dict as a failure
step_returned_marked(st, context, code, position, value, now) ==
    LoopState(merge_result(context, value),
              Append(st.results,
                     StepRecord(code,
                                ~(value.isdict /\ "error" \in DOMAIN value.d),
                                value, <<>>, position, now)),
              FALSE,
              Append(st.seen, context))

\* lines 36-52: the step returned
step_returned(st, context, code, position, value, now) ==
    LoopState(merge_result(context, value),
              Append(st.results,
                     StepRecord(code, TRUE, value, <<>>, position, now)),
              FALSE,
              Append(st.seen, context))

step_outcome(cs, al, st, context, code, effect, position, total, outcome, now) ==
    IF outcome.raised
    THEN step_failed(st, context, code, position, total,
                     error_message(outcome, code, effect), now)
    ELSE step_returned(st, context, code, position,
                       handler_value(outcome.handler, cs, al, context,
                                     outcome.params, effect, now),
                       now)

\* the handlers of the core codes leave previous_results alone
\* (jump_codes.py, lines 179-224)
CoreHandlers == {"_status_handler", "_help_handler", "_list_handler"}

\* previous_results.append(x) and previous_results.pop() of a handler
mutated(list, mutation) ==
    CASE mutation = "append" ->
            Append(list, StepRecord(<<"x">>, TRUE, NoValue, <<>>, 0 - 1, 0))
      [] mutation = "pop" /\ list # <<>> -> SubSeq(list, 1, Len(list) - 1)
      [] OTHER -> list

\* the list of line 32 handed over without a copy
results_shared(results) == [items |-> results, same_list |-> TRUE]

\* line 32: results.copy(), a new list of the same records
results_copy(results) == [items |-> results, same_list |-> FALSE]

\* the results of the engine once the handler body has run: what the
\* handler did to the list it was handed reaches the engine only if that
\* list is the engine's own
after_handler(st, handed, outcome, effect) ==
    IF handed.same_list /\ outcome.handler \notin CoreHandlers \cup {"none"}
    THEN LoopState(st.shared_context, mutated(st.results, effect.mutation),
                   st.stopped, st.seen)
    ELSE st

step_executed(cs, al, st, handed, context, code, effect, position, total,
              outcome, now) ==
    step_outcome(cs, al, after_handler(st, handed, outcome, effect), context,
                 code, effect, position, total, outcome, now)

step_in(cs, al, st, handed, context, code, effect, position, total, now) ==
    step_executed(cs, al, st, handed, context, code, effect, position, total,
                  execute(cs, al, code, context, effect.raises), now)

step_handed(cs, al, st, handed, sequence, effects, i, now) ==
    step_in(cs, al, st, handed,
            position_context(st.shared_context, i - 1, handed.items),
            sequence[i], effects[i], i - 1, Len(sequence), now)

\* one pass of the loop body for the command at index i (position i - 1)
step(cs, al, st, sequence, effects, i, now) ==
    step_handed(cs, al, st, results_copy(st.results), sequence, effects, i,
                now)

RECURSIVE run_steps(_, _, _, _, _, _, _)
run_steps(cs, al, st, sequence, effects, i, now) ==
    IF i > Len(sequence) \/ st.stopped THEN st
    ELSE run_steps(cs, al, step(cs, al, st, sequence, effects, i, now),
                   sequence, effects, i + 1, now)

\* lines 70-77
SequenceRecord(sequence, results, now, start) ==
    [sequence |-> sequence, results |-> results, timestamp |-> now,
     duration |-> now - start,
     completed |-> (Len(results) = Len(sequence)),
     success_rate |-> <<Cardinality({i \in DOMAIN results : results[i].success}),
                        Max({1, Len(results)})>>]

\* lines 69-82: datetime.now() - shared_context['sequence_start'] raises
\* TypeError unless the value under that key is still a datetime
finish(memory, sequence, st, start, now) ==
    IF start[1] # "datetime"
    THEN [raised |-> "TypeError", results |-> st.results, seen |-> st.seen,
          memory |-> memory]
    ELSE [raised |-> "none", results |-> st.results, seen |-> st.seen,
          memory |-> _add_to_memory(memory,
                        SequenceRecord(sequence, st.results, now, start[2]))]

finish_run(memory, sequence, st, now) ==
    finish(memory, sequence, st, st.shared_context["sequence_start"], now)

\* SequentialJumpCodes.execute_sequence.  effects[i] is what the handler
\* of step i does if it is one registered from outside; now is the value
\* of datetime.now() during the call.
execute_sequence(cs, al, memory, sequence, effects, now) ==
    finish_run(memory, sequence,
               run_steps(cs, al,
                         LoopState([key \in {"sequence_id", "sequence_start"} |->
                                       IF key = "sequence_id" THEN <<"str", now>>
                                       ELSE <<"datetime", now>>],
                                   <<>>, FALSE, <<>>),
                         sequence, effects, 1, now),
               now)

----------------------------------------------------------------------------
(* JumpCodeMacros (advanced_jump_codes.py)                                 *)

S_init_project      == <<"i","n","i","t","_","p","r","o","j","e","c","t">>
S_quick_review      == <<"q","u","i","c","k","_","r","e","v","i","e","w">>
S_debug_all         == <<"d","e","b","u","g","_","a","l","l">>
S_save_and_switch   == <<"s","a","v","e","_","a","n","d","_","s","w","i","t","c","h">>
S_parallel_analysis == <<"p","a","r","a","l","l","e","l","_","a","n","a","l","y","s","i","s">>
S_task_description  == <<"t","a","s","k","_","d","e","s","c","r","i","p","t","i","o","n">>
S_checkpoint_name   == <<"c","h","e","c","k","p","o","i","n","t","_","n","a","m","e">>
S_new_context       == <<"n","e","w","_","c","o","n","t","e","x","t">>

\* one entry of JumpCodeMacros.macros ('created', a datetime no operation
\* reads, is left out)
Macro(sequence, description, parameters, usage_count) ==
    [sequence |-> sequence, description |-> description,
     parameters |-> parameters, usage_count |-> usage_count]

\* JumpCodeMacros.define_macro: the exception raised ("none" when the call
\* returns) and the macro table after the call; parameters is <<>> for a
\* call without the argument (parameters or [])
define_macro(md, name, sequence, description, parameters) ==
    IF ~IsIdentifier(name)
    THEN [raised |-> "InvalidMacroName", macros |-> md]
    ELSE [raised |-> "none",
          macros |-> Put(md, name, Macro(sequence, description, parameters, 0))]

\* JumpCodeMacros.undefine_macro: <<macros, returned value>>
undefine_macro(md, name) ==
    IF name \in DOMAIN md THEN <<Remove(md, name), TRUE>> ELSE <<md, FALSE>>

\* a character written as it is
json_char_unescaped(c) == <<c>>

\* json.dump of a str: the characters between quotes, with the quote,
\* the backslash and the newline escaped

json_char(c) ==
    CASE c = "\"" -> <<"\\", "\"">>
      [] c = "\\" -> <<"\\", "\\">>
      [] c = "\n" -> <<"\\", "n">>
      [] OTHER    -> <<c>>

RECURSIVE json_chars(_)
json_chars(s) ==
    IF s = <<>> THEN <<>> ELSE json_char(Head(s)) \o json_chars(Tail(s))

json_dump_str(s) == <<"\"">> \o json_chars(s) \o <<"\"">>

\* json.load of a str literal: the quotes dropped, every escape replaced
\* by the character it stands for
json_escape(c) == IF c = "n" THEN "\n" ELSE c

RECURSIVE json_unescape(_, _)
json_unescape(t, i) ==
    IF i > Len(t) - 1 THEN <<>>
    ELSE IF t[i] = "\\"
    THEN <<json_escape(t[i + 1])>> \o json_unescape(t, i + 2)
    ELSE <<t[i]>> \o json_unescape(t, i + 1)

json_load_str(t) == json_unescape(t, 2)

json_dump_list(l) == [i \in DOMAIN l |-> json_dump_str(l[i])]
json_load_list(l) == [i \in DOMAIN l |-> json_load_str(l[i])]

\* JumpCodeMacros.save_macros: the document written, one object per
\* macro name with the keys sequence, description and parameters (the
\* descriptions of the model are texts with nothing to escape)
save_macros(md) ==
    [key \in {json_dump_str(name) : name \in DOMAIN md} |->
        LET name == json_load_str(key)
        IN  [sequence    |-> json_dump_list(md[name].sequence),
             description |-> md[name].description,
             parameters  |-> json_dump_list(md[name].parameters)]]

\* the loop of load_macros over data.items(): define_macro for every
\* entry; an exception of define_macro ends the loop
RECURSIVE load_entries(_, _, _)
load_entry(md, data, keys, key, r) ==
    IF r.raised # "none" THEN r
    ELSE load_entries(r.macros, data, keys \ {key})

load_entries(md, data, keys) ==
    IF keys = {} THEN [raised |-> "none", macros |-> md]
    ELSE LET key == CHOOSE k \in keys : TRUE
         IN  load_entry(md, data, keys, key,
                        define_macro(md, json_load_str(key),
                                     json_load_list(data[key].sequence),
                                     data[key].description,
                                     json_load_list(data[key].parameters)))

\* JumpCodeMacros.load_macros: the exception raised ("none" when the
\* call returns) and the macro table after the call
load_macros(md, files, filename) ==
    IF filename \notin DOMAIN files
    THEN [raised |-> "FileNotFoundError", macros |-> md]
    ELSE load_entries(md, files[filename].document,
                      DOMAIN files[filename].document)

\* the defaults of _load_default_macros, in the order of the dict
DefaultMacros ==
    << <<S_init_project,
         << <<"@","c","r","e","a","t","e","_","a","g","e","n","t",":","r","o","l","e","=","p","r","o","j","e","c","t","_","m","a","n","a","g","e","r",",","g","o","a","l","=","c","o","o","r","d","i","n","a","t","e"," ","p","r","o","j","e","c","t"," ","t","a","s","k","s">>,
            <<"@","c","r","e","a","t","e","_","a","g","e","n","t",":","r","o","l","e","=","d","e","v","e","l","o","p","e","r",",","g","o","a","l","=","i","m","p","l","e","m","e","n","t"," ","f","e","a","t","u","r","e","s">>,
            <<"@","c","r","e","a","t","e","_","a","g","e","n","t",":","r","o","l","e","=","t","e","s","t","e","r",",","g","o","a","l","=","e","n","s","u","r","e"," ","q","u","a","l","i","t","y">>,
            <<"@","t","e","m","p","l","a","t","e",":","n","a","m","e","=","f","u","l","l","_","c","o","d","e","_","r","e","v","i","e","w">> >>,
         "Initialize a new project with standard agents", <<>> >>,
       <<S_quick_review,
         << <<"@","c","r","e","a","t","e","_","a","g","e","n","t",":","r","o","l","e","=","r","e","v","i","e","w","e","r",",","g","o","a","l","=","r","e","v","i","e","w"," ","c","o","d","e">>,
            <<"@","a","s","s","i","g","n","_","t","a","s","k",":","a","g","e","n","t","=","r","e","v","i","e","w","e","r",",","t","a","s","k","=","$","{","t","a","s","k","_","d","e","s","c","r","i","p","t","i","o","n","}">>,
            <<"@","r","u","n","_","w","o","r","k","f","l","o","w",":","w","o","r","k","f","l","o","w","=","r","e","v","i","e","w">> >>,
         "Quick code review workflow", <<S_task_description>> >>,
       <<S_debug_all,
         << <<"@","d","e","b","u","g",":","a","g","e","n","t","=","a","l","l",",","v","e","r","b","o","s","e","=","t","r","u","e",",","s","a","v","e","_","l","o","g","s","=","t","r","u","e">>,
            <<"@","s","t","a","t","u","s">>,
            <<"@","l","i","s","t","_","a","g","e","n","t","s">> >>,
         "Enable full debugging and show status", <<>> >>,
       <<S_save_and_switch,
         << <<"@","s","a","v","e","_","s","t","a","t","e",":","n","a","m","e","=","$","{","c","h","e","c","k","p","o","i","n","t","_","n","a","m","e","}">>,
            <<"@","s","w","i","t","c","h","_","c","o","n","t","e","x","t",":","c","o","n","t","e","x","t","=","$","{","n","e","w","_","c","o","n","t","e","x","t","}",",","p","r","e","s","e","r","v","e","_","s","t","a","t","e","=","t","r","u","e">> >>,
         "Save current state and switch context",
         <<S_checkpoint_name, S_new_context>> >>,
       <<S_parallel_analysis,
         << <<"@","c","r","e","a","t","e","_","a","g","e","n","t",":","r","o","l","e","=","c","o","d","e","_","a","n","a","l","y","s","t",",","g","o","a","l","=","a","n","a","l","y","z","e"," ","c","o","d","e"," ","s","t","r","u","c","t","u","r","e">>,
            <<"@","c","r","e","a","t","e","_","a","g","e","n","t",":","r","o","l","e","=","s","e","c","u","r","i","t","y","_","s","c","a","n","n","e","r",",","g","o","a","l","=","f","i","n","d"," ","v","u","l","n","e","r","a","b","i","l","i","t","i","e","s">>,
            <<"@","c","r","e","a","t","e","_","a","g","e","n","t",":","r","o","l","e","=","p","e","r","f","o","r","m","a","n","c","e","_","p","r","o","f","i","l","e","r",",","g","o","a","l","=","i","d","e","n","t","i","f","y"," ","b","o","t","t","l","e","n","e","c","k","s">>,
            <<"@","p","a","r","a","l","l","e","l",":","t","a","s","k","s","=","a","n","a","l","y","z","e","_","s","t","r","u","c","t","u","r","e",";","s","c","a","n","_","s","e","c","u","r","i","t","y",";","p","r","o","f","i","l","e","_","p","e","r","f","o","r","m","a","n","c","e">> >>,
         "Parallel code analysis workflow", <<>> >> >>

\* JumpCodeMacros._load_default_macros
RECURSIVE _load_default_macros(_, _)
_load_default_macros(md, defaults) ==
    IF defaults = <<>> THEN md
    ELSE _load_default_macros(
             define_macro(md, Head(defaults)[1], Head(defaults)[2],
                          Head(defaults)[3], Head(defaults)[4]).macros,
             Tail(defaults))

\* the end of the match of \$\{(\w+)\} that starts at index i of code, 0
\* when the pattern does not match there; n is the length of the \w run
\* after "${"
placeholder_closed(code, i, n) ==
    IF n >= 1 /\ i + 2 + n <= Len(code) /\ code[i + 2 + n] = "}"
    THEN i + 2 + n ELSE 0

placeholder_end(code, i) ==
    IF i + 3 <= Len(code) /\ code[i] = "$" /\ code[i + 1] = "{"
    THEN placeholder_closed(code, i,
                            WordPrefixLen(SubSeq(code, i + 2, Len(code))))
    ELSE 0

\* a replacer that drops the placeholder of a parameter not provided
replacer_dropping(params, param_name, whole) ==
    IF param_name \in DOMAIN params THEN params[param_name] ELSE <<>>

\* replacer of _substitute_params: whole is match.group(0)
replacer(params, param_name, whole) ==
    IF param_name \in DOMAIN params THEN params[param_name] ELSE whole

\* re.sub(pattern, replacer, code): the matches taken left to right from
\* index i on, the replacement text not scanned again
RECURSIVE substitute_from(_, _, _)
substitute_at(code, params, i, e) ==
    IF e = 0
    THEN <<code[i]>> \o substitute_from(code, params, i + 1)
    ELSE replacer(params, SubSeq(code, i + 2, e - 1), SubSeq(code, i, e))
         \o substitute_from(code, params, e + 1)

substitute_from(code, params, i) ==
    IF i > Len(code) THEN <<>>
    ELSE substitute_at(code, params, i, placeholder_end(code, i))

\* JumpCodeMacros._substitute_params
_substitute_params(code, params) == substitute_from(code, params, 1)

\* the check of line 232 reporting the first absent parameter only
missing_params_first(parameters, params) ==
    LET absent == {i \in DOMAIN parameters : parameters[i] \notin DOMAIN params}
    IN  IF absent = {} THEN <<>> ELSE <<parameters[Min(absent)]>>

\* line 232: the declared parameters not in params, in declared order
RECURSIVE missing_params(_, _)
missing_params(parameters, params) ==
    IF parameters = <<>> THEN <<>>
    ELSE (IF Head(parameters) \in DOMAIN params THEN <<>>
          ELSE <<Head(parameters)>>)
         \o missing_params(Tail(parameters), params)

ExpandResult(raised, missing, expanded, md) ==
    [raised |-> raised, missing |-> missing, expanded |-> expanded,
     macros |-> md]

\* lines 235-245: the expansion, then the usage count
expand_sequence(md, name, params) ==
    ExpandResult("none", <<>>,
                 [i \in DOMAIN md[name].sequence |->
                     _substitute_params(md[name].sequence[i], params)],
                 [md EXCEPT ![name].usage_count = @ + 1])

expand_checked(md, name, params, missing) ==
    IF missing # <<>>
    THEN ExpandResult("MissingParameters", missing, <<>>, md)
    ELSE expand_sequence(md, name, params)

\* JumpCodeMacros.expand_macro; params is {} for a call without the
\* argument
expand_macro(md, name, params) ==
    IF name \notin DOMAIN md
    THEN ExpandResult("UnknownMacro", <<>>, <<>>, md)
    ELSE expand_checked(md, name, params,
                        missing_params(md[name].parameters, params))

----------------------------------------------------------------------------
(* JumpCodeMiddleware (advanced_jump_codes.py): the macro handlers         *)

\* re.findall(r'\$\{(\w+)\}', code): group 1 of the matches, left to right
RECURSIVE findall_from(_, _)
findall_at(code, i, e) ==
    IF e = 0 THEN findall_from(code, i + 1)
    ELSE <<SubSeq(code, i + 2, e - 1)>> \o findall_from(code, e + 1)

findall_from(code, i) ==
    IF i > Len(code) THEN <<>>
    ELSE findall_at(code, i, placeholder_end(code, i))

findall(code) == findall_from(code, 1)

\* lines 455-458: the set params after the loop over the sequence
handler_params(sequence) ==
    UNION {Range(findall(sequence[i])) : i \in DOMAIN sequence}

\* the lists list(params) can be: the elements of the set, each once, in
\* the iteration order of the set
ListsOf(S) ==
    {l \in [1..Cardinality(S) -> S] : Range(l) = S}

\* the dict a macro handler returns: error is whether it holds
\* 'error': True
HandlerResult(error, md) == [error |-> error, macros |-> md]

\* JumpCodeMiddleware._define_macro_handler; parameters is list(params),
\* one of ListsOf(handler_params(sequence))
_define_macro_handler(md, name, sequence, description, parameters) ==
    HandlerResult(define_macro(md, name, sequence, description,
                               parameters).raised # "none",
                  define_macro(md, name, sequence, description,
                               parameters).macros)

----------------------------------------------------------------------------
(* JumpCodeMiddleware (advanced_jump_codes.py): process_input              *)

\* what a middleware call ends in: the branch of process_input taken, the
\* exception leaving the call ("none" when it returns), whether the dict
\* returned holds 'error': True, the commands of the batch and their
\* records, and the macro table and the sequence memory after the call
MiddlewareResult(branch, raised, error, cmds, results, md, memory) ==
    [branch |-> branch, raised |-> raised, error |-> error, codes |-> cmds,
     results |-> results, total_count |-> Len(results),
     macros |-> md, memory |-> memory]

\* lines 488-504: the expanded sequence executed; an exception of
\* execute_sequence ends in the except clause
exec_sequence(expansion, run) ==
    MiddlewareResult("macro", "none", run.raised # "none", expansion.expanded,
                     IF run.raised # "none" THEN <<>> ELSE run.results,
                     expansion.macros, run.memory)

exec_expanded(cs, al, memory, expansion, effects, now) ==
    IF expansion.raised # "none"
    THEN MiddlewareResult("macro", "none", TRUE, <<>>, <<>>,
                          expansion.macros, memory)
    ELSE exec_sequence(expansion,
                       execute_sequence(cs, al, memory, expansion.expanded,
                                        effects, now))

\* JumpCodeMiddleware._exec_macro_handler(context, name, params); params
\* is {} for a call without the argument
_exec_macro_handler(cs, al, md, memory, name, params, effects, now) ==
    exec_expanded(cs, al, memory, expand_macro(md, name, params), effects, now)

\* the pattern ^!(\w+)\(([^)]*)\)$ ; n is the length of the \w run after
\* the "!"
macro_match(s, n) ==
    /\ Len(s) >= n + 3
    /\ s[1] = "!"
    /\ n >= 1
    /\ s[n + 2] = "("
    /\ s[Len(s)] = ")"
    /\ \A i \in (n + 3)..(Len(s) - 1) : s[i] # ")"

\* JumpCodeMiddleware._parse_macro_params: the loop over
\* params_str.split(','), a token without '=' skipped
macro_param_at(params, param, eq) ==
    IF eq > 0
    THEN Put(params, strip(Before(param, eq)), strip(After(param, eq)))
    ELSE params

RECURSIVE macro_params_of(_, _)
macro_params_of(params, tokens) ==
    IF tokens = <<>> THEN params
    ELSE macro_params_of(macro_param_at(params, strip(Head(tokens)),
                                        find(strip(Head(tokens)), "=")),
                         Tail(tokens))

_parse_macro_params(params_str) ==
    IF params_str = <<>> THEN EmptyDict
    ELSE macro_params_of(EmptyDict, split(params_str, ","))

\* length of the longest prefix of s made of \S characters
NonSpacePrefixLen(s) == PrefixBefore(s, {i \in DOMAIN s : IsSpaceChar(s[i])})

\* re.findall(r'@@(\S+)', s): group 1 of the matches from index i on
RECURSIVE sequence_codes_from(_, _)
sequence_codes_at(s, i, n) ==
    IF n = 0 THEN sequence_codes_from(s, i + 1)
    ELSE <<SubSeq(s, i + 2, i + 1 + n)>> \o sequence_codes_from(s, i + 2 + n)

sequence_codes_from(s, i) ==
    IF i + 2 > Len(s) THEN <<>>
    ELSE IF s[i] = "@" /\ s[i + 1] = "@"
    THEN sequence_codes_at(s, i, NonSpacePrefixLen(SubSeq(s, i + 2, Len(s))))
    ELSE sequence_codes_from(s, i + 1)

\* line 402: the prefix added to a code that does not start with it
with_prefix(cmds) ==
    [i \in DOMAIN cmds |->
        IF cmds[i][1] = "@" THEN cmds[i] ELSE <<"@">> \o cmds[i]]

\* JumpCodeMiddleware._process_sequence: an exception of execute_sequence
\* leaves the call
sequence_result(cmds, run) ==
    MiddlewareResult("sequence", run.raised, FALSE, cmds,
                     IF run.raised # "none" THEN <<>> ELSE run.results,
                     <<>>, run.memory)

_process_sequence(cs, al, memory, cmds, effects, now) ==
    sequence_result(with_prefix(cmds),
                    execute_sequence(cs, al, memory, with_prefix(cmds),
                                     effects, now))

\* JumpCodeMiddleware._process_single_code: what the squad's
\* process_jump_code returns; isdict tells whether it is a dict
single_result(outcome, effect) ==
    [error |-> outcome.raised,
     isdict |-> \/ outcome.raised
                \/ outcome.handler \in {"_status_handler", "_help_handler",
                                        "_list_handler"}
                \/ effect.value.isdict]

_process_single_code(cs, al, code, effect) ==
    single_result(execute(cs, al, code, current_context, effect.raises), effect)

\* the end of the match of \{@([^}]+)\} that starts at index i of s, 0
\* when the pattern does not match there
inline_end(s, i) ==
    IF i + 3 <= Len(s) /\ s[i] = "{" /\ s[i + 1] = "@" /\ s[i + 2] # "}"
    THEN MinOrZero({e \in (i + 3)..Len(s) : s[e] = "}"})
    ELSE 0

\* re.finditer(inline_pattern, text): group 1 of the matches
RECURSIVE inline_codes_from(_, _)
inline_codes_at(s, i, e) ==
    IF e = 0 THEN inline_codes_from(s, i + 1)
    ELSE <<SubSeq(s, i + 2, e - 1)>> \o inline_codes_from(s, e + 1)

inline_codes_from(s, i) ==
    IF i > Len(s) THEN <<>>
    ELSE inline_codes_at(s, i, inline_end(s, i))

\* JumpCodeMiddleware._process_inline_codes: result.get('error') raises
\* AttributeError on a result that is no dict
inline_results(cs, al, cmds, effects) ==
    [i \in DOMAIN cmds |->
        _process_single_code(cs, al, <<"@">> \o cmds[i], effects[i])]

inline_result(results, md, memory) ==
    MiddlewareResult("inline",
                     IF \E i \in DOMAIN results : ~results[i].isdict
                     THEN "AttributeError" ELSE "none",
                     FALSE, <<>>, results, md, memory)

_process_inline_codes(cs, al, md, memory, text, effects) ==
    inline_result(inline_results(cs, al, inline_codes_from(text, 1), effects),
                  md, memory)

\* lines 375-386 of process_input
process_batches(cs, al, md, memory, user_input, effects, now, cmds) ==
    IF cmds # <<>>
    THEN [_process_sequence(cs, al, memory, cmds, effects, now)
             EXCEPT !.macros = md]
    ELSE IF inline_codes_from(user_input, 1) # <<>>
    THEN _process_inline_codes(cs, al, md, memory, user_input, effects)
    ELSE MiddlewareResult("none", "none", FALSE, <<>>, <<>>, md, memory)

\* lines 366-373 of process_input
process_macro(cs, al, md, memory, user_input, effects, now, n) ==
    IF macro_match(user_input, n)
    THEN _exec_macro_handler(cs, al, md, memory,
                             SubSeq(user_input, 2, n + 1),
                             _parse_macro_params(
                                 SubSeq(user_input, n + 3, Len(user_input) - 1)),
                             effects, now)
    ELSE process_batches(cs, al, md, memory, user_input, effects, now,
                         sequence_codes_from(user_input, 1))

single_code(r, md, memory) ==
    MiddlewareResult("single", "none", r.error, <<>>, <<r>>, md, memory)

\* JumpCodeMiddleware.process_input
process_input(cs, al, md, memory, user_input, effects, now) ==
    IF Len(user_input) > 0 /\ user_input[1] = "@"
    THEN single_code(_process_single_code(cs, al, user_input, effects[1]),
                     md, memory)
    ELSE process_macro(cs, al, md, memory, user_input, effects, now,
                       WordPrefixLen(SubSeq(user_input, 2, Len(user_input))))

----------------------------------------------------------------------------
(* Inputs of the model                                                     *)

At(name) == <<"@">> \o name

\* descriptors handed to JumpCodeRegistry.register
Descriptors ==
    { JumpCode(S_s, "h1", EmptyDict, <<>>, <<>>),
      JumpCode(S_x, "h1",
               Put(Put(EmptyDict, S_k, <<"int", 1>>), S_m, <<"str", <<"a">> >>),
               <<S_y>>, <<"user", "task">>),
      JumpCode(S_x, "h2", EmptyDict, <<S_z>>, <<>>),
      JumpCode(S_w, "h2", EmptyDict, <<S_status, S_y>>, <<"user">>),
      JumpCode(S_1x, "h1", EmptyDict, <<>>, <<>>) }

\* names handed to JumpCodeRegistry.unregister
UnregisterNames == {S_x, S_s, S_w, S_status, S_nope}

\* contexts handed to JumpCodeRegistry.execute
Contexts ==
    { EmptyDict,
      [key \in {"task"} |-> "v"],
      [key \in {"user", "task"} |-> "v"] }

\* command strings handed to JumpCodeRegistry.execute
Commands ==
    { At(S_status), At(S_s), At(S_stat), At(S_help), At(S_h), At(S_qmark),
      At(S_x), At(S_y), At(S_z), At(S_w), At(S_nope), At(S_1x),
      S_status,
      At(S_help) \o <<":","f","i","l","t","e","r","=","5">>,
      At(S_x) \o <<":","k","=","2">>,
      At(S_x) \o <<":","k","=","2",",","j">>,
      At(S_x) \o <<":","k","=",SUP2>>,
      At(S_y) \o <<":","m","=","1",".","5">> }

\* command strings handed to EnhancedAgentSquad.process_jump_code
ProcessCommands ==
    { At(S_status), At(S_nope), At(S_x),
      At(S_status) \o <<":","i","n","v","a","l","i","d"," ","f","o","r","m","a","t"," ","h","e","r","e">>,
      At(S_x) \o <<":","f","r","e","e"," ","t","e","x","t">>,
      At(S_s) \o <<":","a"," ","b">>,
      At(S_status) \o <<":","k","=","2">> }

\* strings handed to the two parsers: a head followed by every string of
\* at most MaxBodyLen characters of BodyChars, and the examples of the
\* documentation
MaxBodyLen == 3

BodyChars == {"a", "1", SUP2, ".", "=", ",", " ", ":", "!"}

Bodies == UNION {[1..n -> BodyChars] : n \in 0..MaxBodyLen}

Heads == { <<>>, <<"@">>, <<"@","x">>, <<"@","x",":">>,
           <<"@","x",":","k","=">> }

Examples ==
    { <<"@","x",":","k","=","t","r","u","e">>,
      <<"@","x",":","k","=","T","r","u","e">>,
      <<"@","x",":","k","=","F","A","L","S","E">>,
      <<"@","x",":","k","=","0","0","7">>,
      <<"@","x",":","k","=","f","o","o">>,
      <<"x",":","k","=","1",".","5","0">>,
      <<"@","s","t","a","t","u","s">> }

ParseInputs == {h \o b : h \in Heads, b \in Bodies} \cup Examples

\* registrations, macros and command strings handed to the
\* EnhancedJumpCodeProcessor
S_t    == <<"t">>
S_test == <<"t","e","s","t">>

Patterns == {At(S_t), At(S_test), At(S_x)}

EnhancedAliasLists == {<<>>, <<At(S_y)>>}

MacroBodies ==
    { <<At(S_test)>>, <<At(S_m)>>, <<At(S_nope), At(S_test)>> }

EnhancedCommands ==
    { At(S_test), At(S_test) \o <<"x">>, At(S_t), At(S_x), At(S_y),
      At(S_test) \o <<"!","!">>, At(S_nope), S_test, <<"@">>, At(S_m),
      At(S_test) \o <<":","v","e","r","b","o","s","e">> }

----------------------------------------------------------------------------
(* The three state machines                                                *)

Last(op, arg, context, fault, before, out) ==
    [op |-> op, arg |-> arg, context |-> context, fault |-> fault,
     before |-> before, out |-> out]

NoLast == Last("init", <<>>, EmptyDict, FALSE, <<>>, <<>>)

NotParsed == [by |-> "none", res |-> ParseResult("none", NoCode, EmptyDict)]

RegistryInit ==
    LET r == register_all(EmptyDict, EmptyDict, CoreCodes)
    IN  /\ codes = r[1]
        /\ aliases = r[2]
        /\ last = NoLast

ParserInit == code_string = <<>> /\ parsed = NotParsed

EnhancedInit ==
    /\ ecodes = <<>>
    /\ ealiases = EmptyDict
    /\ macros = EmptyDict
    /\ ehistory = <<>>
    /\ elast = NoLast

SequenceInit == sequence_memory = <<>> /\ clock = 0

NotSubstituted == [code |-> <<>>, params |-> EmptyDict, out |-> <<>>, done |-> FALSE]

MacroInit ==
    /\ macro_defs = _load_default_macros(EmptyDict, DefaultMacros)
    /\ mlast = NoLast
    /\ substitution = NotSubstituted

\* no batch running, no thread inside _add_to_memory
NoBatch ==
    [phase |-> "idle", task_list |-> <<>>, agents |-> <<>>,
     fail_fast |-> FALSE, done |-> <<>>, assigned |-> <<>>, initial |-> {},
     queue |-> <<>>, yielded |-> {}, results |-> EmptyDict, failed |-> FALSE,
     expired |-> FALSE, timed_out |-> FALSE, result |-> EmptyDict]

Threads == {1, 2}

NoThread == [pc |-> "idle", record |-> <<>>, slice |-> <<>>]

BatchInit ==
    /\ parallel = NoBatch
    /\ threads = [t \in Threads |-> NoThread]

MiddlewareInit == mwlast = NoLast /\ saved = EmptyDict

LaterInit == BatchInit /\ MiddlewareInit

Init ==
    /\ RegistryInit /\ ParserInit /\ EnhancedInit /\ SequenceInit /\ MacroInit
    /\ LaterInit

\* registry.register(jump_code)
Register(jump_code) ==
    /\ IF IsIdentifier(jump_code.code)
       THEN LET r == register(codes, aliases, jump_code)
            IN  /\ codes' = r[1]
                /\ aliases' = r[2]
                /\ last' = Last("register", jump_code, EmptyDict, FALSE,
                                <<codes, aliases>>, [raised |-> "none"])
       ELSE /\ UNCHANGED <<codes, aliases>>
            /\ last' = Last("register", jump_code, EmptyDict, FALSE,
                            <<codes, aliases>>, [raised |-> "InvalidFormat"])
    /\ UNCHANGED <<parserVars, enhancedVars, sequenceVars, macroVars,
                   batchVars, middlewareVars>>

\* registry.unregister(code)
Unregister(code) ==
    LET r == unregister(codes, aliases, code)
    IN  /\ codes' = r[1]
        /\ aliases' = r[2]
        /\ last' = Last("unregister", code, EmptyDict, FALSE,
                        <<codes, aliases>>, [returned |-> r[3]])
        /\ UNCHANGED <<parserVars, enhancedVars, sequenceVars, macroVars,
                   batchVars, middlewareVars>>

\* registry.execute(code_string, context)
Execute(s, context, fault) ==
    /\ last' = Last("execute", s, context, fault, <<codes, aliases>>,
                    execute(codes, aliases, s, context, fault))
    /\ UNCHANGED <<codes, aliases, parserVars, enhancedVars,
                   sequenceVars, macroVars,
                   batchVars, middlewareVars>>

\* squad.process_jump_code(code_string)
ProcessJumpCode(s, fault) ==
    /\ last' = Last("process_jump_code", s, current_context, fault,
                    <<codes, aliases>>,
                    process_jump_code(codes, aliases, s, fault))
    /\ UNCHANGED <<codes, aliases, parserVars, enhancedVars,
                   sequenceVars, macroVars,
                   batchVars, middlewareVars>>

Next ==
    \/ \E jump_code \in Descriptors : Register(jump_code)
    \/ \E code \in UnregisterNames : Unregister(code)
    \/ \E s \in Commands, context \in Contexts, fault \in BOOLEAN :
          Execute(s, context, fault)
    \/ \E s \in ProcessCommands, fault \in BOOLEAN : ProcessJumpCode(s, fault)

Spec == Init /\ [][Next]_vars

\* the parsers as pure functions of the input string
InitParse ==
    /\ RegistryInit /\ EnhancedInit /\ SequenceInit /\ MacroInit
    /\ LaterInit
    /\ code_string \in ParseInputs
    /\ parsed = NotParsed

ParseRegistry ==
    /\ parsed' = [by |-> "registry", res |-> _parse_jump_code(code_string)]
    /\ UNCHANGED <<code_string, registryVars, enhancedVars,
                   sequenceVars, macroVars,
                   batchVars, middlewareVars>>

ParseEnhanced ==
    /\ parsed' = [by |-> "enhanced", res |-> parse_jump_code(code_string)]
    /\ UNCHANGED <<code_string, registryVars, enhancedVars,
                   sequenceVars, macroVars,
                   batchVars, middlewareVars>>

NextParse == ParseRegistry \/ ParseEnhanced

SpecParse == InitParse /\ [][NextParse]_vars

\* _processor.registry.register(pattern, handler, aliases)
EnhancedRegister(pattern, handler, als) ==
    LET r == enhanced_register(ecodes, ealiases, pattern, handler, als)
    IN  /\ ecodes' = r[1]
        /\ ealiases' = r[2]
        /\ elast' = Last("register", pattern, EmptyDict, FALSE, <<>>, <<>>)
        /\ UNCHANGED <<macros, ehistory, registryVars, parserVars,
                     sequenceVars, macroVars,
                   batchVars, middlewareVars>>

\* register_macro(name, commands)
RegisterMacro(name, commands) ==
    /\ macros' = Put(macros, name, commands)
    /\ elast' = Last("register_macro", name, EmptyDict, FALSE, <<>>, <<>>)
    /\ UNCHANGED <<ecodes, ealiases, ehistory, registryVars, parserVars,
                   sequenceVars, macroVars,
                   batchVars, middlewareVars>>

\* _processor.execute(code), which runs execute_async to its end
EnhancedExecute(code, fault) ==
    LET r == execute_async(ecodes, ealiases, macros, code, fault, 0)
    IN  /\ elast' = Last("execute", code, EmptyDict, fault, <<>>, r)
        /\ UNCHANGED <<ecodes, ealiases, macros, ehistory,
                       registryVars, parserVars, sequenceVars, macroVars,
                   batchVars, middlewareVars>>

\* the batches handed to execute_parallel
ParallelBatches ==
    { <<>>, <<At(S_nope), At(S_nope)>>, <<At(S_nope), At(S_test)>>,
      <<At(S_m), At(S_nope), S_test>> }

\* await _processor.execute_parallel(cmds)
EnhancedExecuteParallel(cmds, fault) ==
    LET raising == {i \in DOMAIN cmds :
                      execute_async(ecodes, ealiases, macros, cmds[i],
                                    fault, 0).raised # "none"}
    IN  \E failing \in IF raising = {} THEN {0} ELSE raising :
          /\ elast' = Last("execute_parallel", cmds, EmptyDict, fault, <<>>,
                           execute_parallel(ecodes, ealiases, macros, cmds,
                                            fault, failing))
          /\ UNCHANGED <<ecodes, ealiases, macros, ehistory,
                         registryVars, parserVars, sequenceVars, macroVars,
                         batchVars, middlewareVars>>

\* get_execution_history()
GetExecutionHistory ==
    /\ elast' = Last("get_execution_history", <<>>, EmptyDict, FALSE, <<>>,
                     get_execution_history(ehistory))
    /\ UNCHANGED <<ecodes, ealiases, macros, ehistory,
                   registryVars, parserVars, sequenceVars, macroVars,
                   batchVars, middlewareVars>>

NextEnhanced ==
    \/ \E pattern \in Patterns, handler \in {"h1", "h2"},
          als \in EnhancedAliasLists : EnhancedRegister(pattern, handler, als)
    \/ \E commands \in MacroBodies : RegisterMacro(S_m, commands)
    \/ \E code \in EnhancedCommands, fault \in BOOLEAN :
          EnhancedExecute(code, fault)
    \/ GetExecutionHistory

SpecEnhanced == Init /\ [][NextEnhanced]_vars

\* batches of execute_parallel over the registrations and the macros
NextGather ==
    \/ \E pattern \in {At(S_test), At(S_x)}, als \in EnhancedAliasLists :
          EnhancedRegister(pattern, "h1", als)
    \/ \E commands \in MacroBodies : RegisterMacro(S_m, commands)
    \/ \E cmds \in ParallelBatches, fault \in BOOLEAN :
          EnhancedExecuteParallel(cmds, fault)

SpecGather == Init /\ [][NextGather]_vars
----------------------------------------------------------------------------
(* SequentialJumpCodes over a registry holding the core codes and two      *)
(* commands registered from outside                                        *)

S_run  == <<"r","u","n">>
S_need == <<"n","e","e","d">>

\* "run" takes no context; "need" requires the context key "a"
SequenceDescriptors ==
    <<JumpCode(S_run, "h1", EmptyDict, <<>>, <<>>),
      JumpCode(S_need, "h2", EmptyDict, <<>>, <<"a">>)>>

Returns(isdict, d) == Effect(FALSE, <<>>, isdict, d)
Raises(message)    == Effect(TRUE, message, FALSE, EmptyDict)
Mutates(mutation)  == EffectOn(FALSE, <<>>, FALSE, EmptyDict, mutation)

\* a step of an input sequence: the command and what its handler does
StepStatus  == <<At(S_status), Returns(FALSE, EmptyDict)>>
StepUnknown == <<At(S_nope), Returns(FALSE, EmptyDict)>>
StepInvalid == <<At(S_qmark), Returns(FALSE, EmptyDict)>>
StepNeed    == <<At(S_need), Returns(FALSE, EmptyDict)>>
StepNone    == <<At(S_run), Returns(FALSE, EmptyDict)>>
StepSetA    == <<At(S_run), Returns(TRUE, [key \in {"a"} |-> <<"int", 1>>])>>
\* a handler that returns an error-marked dict, as _create_agent_handler
\* does (agent_squad_jump_integration.py, lines 211-215)
StepErrorDict ==
    <<At(S_run),
      Returns(TRUE, [key \in {"error", "message"} |->
                        IF key = "error" THEN <<"bool", TRUE>>
                        ELSE <<"str", "Failed to create agent">>])>>
\* handlers that change the list under previous_results
StepAppend == <<At(S_run), Mutates("append")>>
StepPop    == <<At(S_run), Mutates("pop")>>
StepEvil ==
    <<At(S_run),
      Returns(TRUE, [key \in {"a", "sequence_id", "sequence_position",
                              "previous_results"} |->
                        CASE key = "a" -> <<"int", 2>>
                          [] key = "sequence_id" -> <<"int", 7>>
                          [] key = "sequence_position" -> <<"int", 9>>
                          [] OTHER -> <<"list", <<>> >>])>>
StepStart ==
    <<At(S_run), Returns(TRUE, [key \in {"sequence_start"} |-> <<"int", 5>>])>>
StepBoom == <<At(S_run), Raises(<<"b","o","o","m">>)>>
StepBoomText ==
    <<At(S_run), Raises(<<"u","p","s","t","r","e","a","m"," ","s","a","i","d",":"," ","U","n","k","n","o","w","n"," ","j","u","m","p"," ","c","o","d","e">>)>>
StepConversion ==
    <<At(S_run) \o <<":","k","=",SUP2>>, Returns(FALSE, EmptyDict)>>

Steps ==
    { StepStatus, StepUnknown, StepInvalid, StepNeed, StepNone, StepSetA,
      StepEvil, StepStart, StepBoom, StepBoomText, StepConversion,
      StepErrorDict, StepAppend, StepPop }

FirstSteps ==
    { StepUnknown, StepInvalid, StepNeed, StepSetA, StepEvil, StepStart,
      StepBoom, StepBoomText, StepConversion, StepErrorDict }

\* the runs handed to execute_sequence: the empty sequence, every single
\* step, every first step followed by @status or @need, and longer runs
SequenceRuns ==
    {<<>>} \cup {<<x>> : x \in Steps}
    \cup {<<x, y>> : x \in FirstSteps, y \in {StepStatus, StepNeed}}
    \cup { <<StepSetA, StepUnknown, StepStatus>>,
           <<StepStatus, StepBoom, StepStatus>>,
           <<StepStatus, StepBoomText, StepStatus>>,
           <<StepSetA, StepEvil, StepNeed>>,
           <<StepEvil, StepSetA, StepNeed>>,
           <<StepSetA, StepNeed, StepInvalid>>,
           <<StepStatus, StepNeed, StepSetA>>,
           <<StepNone, StepStatus, StepUnknown>>,
           <<StepStart, StepUnknown, StepStatus>>,
           <<StepConversion, StepStatus, StepStatus>>,
           <<StepErrorDict, StepBoom, StepStatus>>,
           <<StepStatus, StepPop, StepAppend>>,
           <<StepAppend, StepStatus, StepPop>> }

\* calls of execute_sequence a behaviour makes
MaxRuns == 2

\* runs past the capacity of the memory
MaxExtra == 5

CodesOf(run)   == [i \in DOMAIN run |-> run[i][1]]
EffectsOf(run) == [i \in DOMAIN run |-> run[i][2]]

InitSequence ==
    /\ LET r == register_all(EmptyDict, EmptyDict,
                             CoreCodes \o SequenceDescriptors)
       IN  codes = r[1] /\ aliases = r[2]
    /\ last = NoLast
    /\ ParserInit /\ EnhancedInit /\ SequenceInit /\ MacroInit
    /\ LaterInit

\* sequential.execute_sequence(sequence)
RunSequence(run) ==
    LET r == execute_sequence(codes, aliases, sequence_memory,
                              CodesOf(run), EffectsOf(run), clock)
    IN  /\ sequence_memory' = r.memory
        /\ clock' = clock + 1
        /\ last' = Last("execute_sequence", CodesOf(run), EmptyDict,
                        EffectsOf(run), sequence_memory, r)
        /\ UNCHANGED <<codes, aliases, parserVars, enhancedVars, macroVars,
                   batchVars, middlewareVars>>

ExecuteSequence(run) == clock < MaxRuns /\ RunSequence(run)

NextSequence == \E run \in SequenceRuns : ExecuteSequence(run)

SpecSequence == InitSequence /\ [][NextSequence]_vars

\* the same sequence run again and again, past the capacity of the memory
RepeatSequence ==
    /\ clock < max_memory_size + MaxExtra
    /\ RunSequence(<<StepStatus, StepUnknown>>)

SpecMemory == InitSequence /\ [][RepeatSequence]_vars

\* the history filled by short runs and queried between them
MaxHistoryRuns == 10
MaxLimit == 10

FillHistory ==
    /\ clock < MaxHistoryRuns
    /\ RunSequence(<<StepStatus>>)

\* sequential.get_history(limit)
GetHistory(limit) ==
    /\ last' = Last("get_history", limit, EmptyDict, FALSE, sequence_memory,
                    get_history(sequence_memory, limit))
    /\ UNCHANGED <<codes, aliases, parserVars, enhancedVars, sequenceVars,
                   macroVars, batchVars, middlewareVars>>

NextHistory ==
    \/ FillHistory
    \/ \E limit \in 0..MaxLimit : GetHistory(limit)

SpecHistory == InitSequence /\ [][NextHistory]_vars

\* Two threads call execute_sequence on one SequentialJumpCodes.  The
\* steps of a sequence read the registry only; _add_to_memory at the end
\* of the call works on the shared sequence_memory in four steps, each of
\* them atomic under the interpreter lock: append, the test of the
\* length, the slice, and the assignment of the slice.

\* calls made by the threads, counted from the last call that fits
MaxConcurrent == 2

AllIdle == \A t \in Threads : threads[t].pc = "idle"

ThreadStep(t, pc, record, slice) ==
    /\ threads' = [threads EXCEPT ![t] =
                      [pc |-> pc, record |-> record, slice |-> slice]]
    /\ UNCHANGED <<registryVars, parserVars, enhancedVars, macroVars,
                   parallel, middlewareVars>>

\* execute_sequence called one after the other, no thread running
FillMemory ==
    /\ AllIdle
    /\ Len(sequence_memory) < max_memory_size - 1
    /\ RunSequence(<<StepStatus>>)

\* lines 19-78: a thread runs its sequence up to the record of line 70
Begin(t) ==
    /\ threads[t].pc = "idle"
    /\ Len(sequence_memory) >= max_memory_size - 1
    /\ clock < max_memory_size + MaxConcurrent
    /\ clock' = clock + 1
    /\ ThreadStep(t, "append",
                  execute_sequence(codes, aliases, <<>>, <<At(S_status)>>,
                                   <<Returns(FALSE, EmptyDict)>>,
                                   clock).memory[1],
                  <<>>)
    /\ UNCHANGED sequence_memory

\* line 107: self.sequence_memory.append(record)
AppendRecord(t) ==
    /\ threads[t].pc = "append"
    /\ sequence_memory' = Append(sequence_memory, threads[t].record)
    /\ ThreadStep(t, "check", threads[t].record, <<>>)
    /\ UNCHANGED clock

\* line 110: if len(self.sequence_memory) > self.max_memory_size
CheckSize(t) ==
    /\ threads[t].pc = "check"
    /\ ThreadStep(t, IF Len(sequence_memory) > max_memory_size
                     THEN "slice" ELSE "done",
                  threads[t].record, <<>>)
    /\ UNCHANGED sequenceVars

\* line 111, right side: self.sequence_memory[-self.max_memory_size:]
TakeSlice(t) ==
    /\ threads[t].pc = "slice"
    /\ ThreadStep(t, "assign", threads[t].record,
                  slice_from(sequence_memory, 0 - max_memory_size))
    /\ UNCHANGED sequenceVars

\* line 111, left side: self.sequence_memory = ...
AssignSlice(t) ==
    /\ threads[t].pc = "assign"
    /\ sequence_memory' = threads[t].slice
    /\ ThreadStep(t, "done", threads[t].record, <<>>)
    /\ UNCHANGED clock

\* execute_sequence returns
ReturnFromRun(t) ==
    /\ threads[t].pc = "done"
    /\ ThreadStep(t, "idle", <<>>, <<>>)
    /\ UNCHANGED sequenceVars

NextThreads ==
    \/ FillMemory
    \/ \E t \in Threads :
          \/ Begin(t)
          \/ AppendRecord(t)
          \/ CheckSize(t)
          \/ TakeSlice(t)
          \/ AssignSlice(t)
          \/ ReturnFromRun(t)

SpecThreads == InitSequence /\ [][NextThreads]_vars

----------------------------------------------------------------------------
(* JumpCodeMacros                                                          *)

S_r  == <<"r">>
S_q  == <<"q">>
S_1m == <<"1","m">>

MacroSequences ==
    { << <<"@","x",":","r","o","l","e","=","$","{","r","}">> >>,
      << <<"@","x",":","a","=","$","{","r","}">>, <<"@","y",":","$","{","q","}","$","{","r","}","$","{","r","}">> >> }

MacroParameterLists == { <<>>, <<S_r>>, <<S_r, S_z>> }

\* the parameter values handed to expand_macro
MacroParams ==
    { EmptyDict,
      [key \in {S_r} |-> <<"d","e","v">>],
      [key \in {S_r, S_z} |-> IF key = S_r THEN <<"d","e","v">> ELSE <<>>],
      [key \in {S_r, S_q} |-> IF key = S_r THEN <<"$","{","q","}">> ELSE <<"Q">>],
      [key \in {S_task_description} |-> <<"f","i","x">>] }

\* successful expansions of one macro a behaviour makes
MaxUsage == 2

\* macros.define_macro(name, sequence, parameters=parameters), or, when
\* given is FALSE, macros.define_macro(name, sequence)
DefineMacro(name, sequence, parameters, given) ==
    LET r == define_macro(macro_defs, name, sequence, "", parameters)
    IN  /\ ~given => parameters = <<>>
        /\ macro_defs' = r.macros
        /\ mlast' = Last("define_macro", name,
                         [sequence |-> sequence, parameters |-> parameters,
                          given |-> given],
                         FALSE, macro_defs, [raised |-> r.raised])
        /\ UNCHANGED <<substitution, registryVars, parserVars, enhancedVars,
                       sequenceVars,
                   batchVars, middlewareVars>>

\* middleware._define_macro_handler({}, name=name, sequence=sequence)
DefineMacroHandler(name, sequence, parameters) ==
    LET r == _define_macro_handler(macro_defs, name, sequence, "", parameters)
    IN  /\ macro_defs' = r.macros
        /\ mlast' = Last("_define_macro_handler", name,
                         [sequence |-> sequence, parameters |-> parameters,
                          given |-> FALSE],
                         FALSE, macro_defs,
                         [raised |-> IF r.error THEN "error" ELSE "none"])
        /\ UNCHANGED <<substitution, registryVars, parserVars, enhancedVars,
                       sequenceVars,
                   batchVars, middlewareVars>>

\* macros.undefine_macro(name)
UndefineMacro(name) ==
    LET r == undefine_macro(macro_defs, name)
    IN  /\ macro_defs' = r[1]
        /\ mlast' = Last("undefine_macro", name, EmptyDict, FALSE, macro_defs,
                         [returned |-> r[2]])
        /\ UNCHANGED <<substitution, registryVars, parserVars, enhancedVars,
                       sequenceVars,
                   batchVars, middlewareVars>>

\* macros.expand_macro(name, params)
ExpandMacro(name, params) ==
    /\ name \in DOMAIN macro_defs => macro_defs[name].usage_count < MaxUsage
    /\ LET r == expand_macro(macro_defs, name, params)
       IN  /\ macro_defs' = r.macros
           /\ mlast' = Last("expand_macro", name, params, FALSE, macro_defs, r)
    /\ UNCHANGED <<substitution, registryVars, parserVars, enhancedVars,
                   sequenceVars,
                   batchVars, middlewareVars>>

NextMacros ==
    \/ \E name \in {S_m, S_1m}, sequence \in MacroSequences,
          parameters \in MacroParameterLists, given \in BOOLEAN :
          DefineMacro(name, sequence, parameters, given)
    \/ \E name \in {S_m, S_1m}, sequence \in MacroSequences :
          \E parameters \in ListsOf(handler_params(sequence)) :
             DefineMacroHandler(name, sequence, parameters)
    \/ \E name \in {S_m, S_quick_review, S_nope} : UndefineMacro(name)
    \/ \E name \in {S_m, S_quick_review, S_nope}, params \in MacroParams :
          ExpandMacro(name, params)

SpecMacros == Init /\ [][NextMacros]_vars

\* templates with characters json.dump escapes
PersistSequences ==
    { << <<"@","x",":","r","o","l","e","=","$","{","r","}">> >>,
      << <<"@","x",":","a","=","\"","\\","n","\"">>, <<"@","y",":","\n","\\">> >> }

MacroFile == "macros.json"

\* macros.save_macros(filename): the file holds the document; macros is
\* the table the document was written from
SaveMacros(filename) ==
    /\ saved' = Put(saved, filename,
                    [document |-> save_macros(macro_defs),
                     macros |-> macro_defs])
    /\ mlast' = Last("save_macros", filename, EmptyDict, FALSE, macro_defs,
                     [raised |-> "none"])
    /\ UNCHANGED <<macro_defs, substitution, mwlast, registryVars,
                   parserVars, enhancedVars, sequenceVars, batchVars>>

\* macros.load_macros(filename)
LoadMacros(filename) ==
    LET r == load_macros(macro_defs, saved, filename)
    IN  /\ macro_defs' = r.macros
        /\ mlast' = Last("load_macros", filename, EmptyDict, FALSE,
                         macro_defs, [raised |-> r.raised])
        /\ UNCHANGED <<substitution, registryVars, parserVars, enhancedVars,
                       sequenceVars, batchVars, middlewareVars>>

NextPersist ==
    \/ \E sequence \in PersistSequences :
          DefineMacro(S_m, sequence, <<S_r>>, TRUE)
    \/ DefineMacro(S_q, <<At(S_status)>>, <<>>, FALSE)
    \/ \E name \in {S_m, S_debug_all} : UndefineMacro(name)
    \/ ExpandMacro(S_m, [key \in {S_r} |-> <<"d","e","v">>])
    \/ SaveMacros(MacroFile)
    \/ LoadMacros(MacroFile)

SpecPersist == Init /\ [][NextPersist]_vars

----------------------------------------------------------------------------
(* EnhancedAgentSquad._parallel_handler (agent_squad_jump_integration.py)  *)

\* line 610: the stripped pieces of tasks.split(';') that are not empty
RECURSIVE stripped_nonempty(_)
stripped_nonempty(pieces) ==
    IF pieces = <<>> THEN <<>>
    ELSE (IF strip(Head(pieces)) = <<>> THEN <<>>
          ELSE <<strip(Head(pieces))>>)
         \o stripped_nonempty(Tail(pieces))

task_list_of(tasks) == stripped_nonempty(split(tasks, ";"))

\* what a task returns: error is the truth value of result.get('error')
TaskResult(error, type, agent, task) ==
    [error |-> error, type |-> type, agent |-> agent, task |-> task]

\* _assign_task_handler (lines 217-260); agents lists the keys of
\* self.agents in the order of the dict
_assign_task_handler(agents, agent, task) ==
    IF agent \notin Range(agents)
    THEN TaskResult(TRUE, "agent_not_found", agent, task)
    ELSE TaskResult(FALSE, "task_assigned", agent, task)

\* execute_task (lines 625-643)
execute_task(agents, task_str) ==
    IF find(task_str, ":") # 0
    THEN _assign_task_handler(agents,
                              strip(Before(task_str, find(task_str, ":"))),
                              strip(After(task_str, find(task_str, ":"))))
    ELSE IF agents # <<>>
    THEN _assign_task_handler(agents, strip(agents[1]), strip(task_str))
    ELSE TaskResult(TRUE, "no_agents", <<>>, <<>>)

\* the dict the handler returns: lines 613-616 and 681-690 return the
\* error and the message only, lines 671-679 the whole record
BatchError(type) ==
    [error |-> TRUE, type |-> type, tasks |-> <<>>, results |-> EmptyDict,
     completed |-> 0, total |-> 0, failed |-> FALSE, counted |-> FALSE]

BatchResult(task_list, results, failed) ==
    [error |-> FALSE, type |-> "parallel_execution", tasks |-> task_list,
     results |-> results, completed |-> Cardinality(DOMAIN results),
     total |-> Len(task_list), failed |-> failed, counted |-> TRUE]

\* the lists that hold every element of S once
Orderings(S) ==
    {q \in [1..Cardinality(S) -> S] : Range(q) = S}

\* the members of the list l that are not in S, in the order of l
RECURSIVE without(_, _)
without(l, S) ==
    IF l = <<>> THEN <<>>
    ELSE (IF Head(l) \in S THEN <<>> ELSE <<Head(l)>>) \o without(Tail(l), S)

BatchStep(b) ==
    /\ parallel' = b
    /\ UNCHANGED <<registryVars, parserVars, enhancedVars, sequenceVars,
                   macroVars, threads, middlewareVars>>

AllDone    == Len(parallel.done) = Len(parallel.task_list)
AllYielded == parallel.yielded = DOMAIN parallel.task_list

\* squad._parallel_handler(context, tasks, timeout, fail_fast) up to the
\* end of the submissions (line 651): every task is submitted, the pool
\* has one worker for each
StartParallel(tasks, agents, fail_fast) ==
    /\ parallel.phase = "idle"
    /\ BatchStep(IF task_list_of(tasks) = <<>>
                 THEN [parallel EXCEPT !.phase = "returned",
                                       !.agents = agents,
                                       !.fail_fast = fail_fast,
                                       !.result = BatchError("no_tasks")]
                 ELSE [parallel EXCEPT !.phase = "submitted",
                                       !.task_list = task_list_of(tasks),
                                       !.agents = agents,
                                       !.fail_fast = fail_fast])

\* a worker runs execute_task for task i to its end; self.tasks gets the
\* task when it was assigned
FinishTask(i) ==
    /\ parallel.phase \in {"submitted", "collecting", "exiting"}
    /\ i \in DOMAIN parallel.task_list
    /\ i \notin Range(parallel.done)
    /\ LET r == execute_task(parallel.agents, parallel.task_list[i])
       IN  BatchStep([parallel EXCEPT
                        !.done = Append(@, i),
                        !.assigned = IF r.error THEN @
                                     ELSE Append(@, <<r.agent, r.task>>)])

\* as_completed is called (line 654): the futures that are finished are
\* yielded first, in the order of a set
StartCollecting(order) ==
    /\ parallel.phase = "submitted"
    /\ order \in Orderings(Range(parallel.done))
    /\ BatchStep([parallel EXCEPT !.phase = "collecting",
                                  !.initial = Range(parallel.done),
                                  !.queue = order])

\* the deadline of as_completed passes
Expire ==
    /\ parallel.phase = "collecting"
    /\ ~parallel.expired
    /\ BatchStep([parallel EXCEPT !.expired = TRUE])

\* as_completed wakes up with the futures finished since it looked last,
\* in the order in which they finished
Wake ==
    /\ parallel.phase = "collecting"
    /\ parallel.queue = <<>>
    /\ ~parallel.expired
    /\ without(parallel.done, parallel.yielded) # <<>>
    /\ BatchStep([parallel EXCEPT
                    !.queue = without(parallel.done, parallel.yielded)])

\* one round of the loop of lines 654-669: the result of the next future
\* is stored under its task string; fail_fast and an error end the loop
YieldTask ==
    /\ parallel.phase = "collecting"
    /\ parallel.queue # <<>>
    /\ LET i == Head(parallel.queue)
           task == parallel.task_list[i]
           r == execute_task(parallel.agents, task)
       IN  BatchStep([parallel EXCEPT
                        !.queue = Tail(@),
                        !.yielded = @ \cup {i},
                        !.results = Put(@, task, r),
                        !.failed = parallel.fail_fast /\ r.error,
                        !.phase = IF parallel.fail_fast /\ r.error
                                  THEN "exiting" ELSE @])

\* as_completed has yielded every future: the loop ends
EndLoop ==
    /\ parallel.phase = "collecting"
    /\ parallel.queue = <<>>
    /\ AllYielded
    /\ BatchStep([parallel EXCEPT !.phase = "exiting"])

\* as_completed finds the deadline passed with futures it has not
\* yielded: TimeoutError leaves the loop
RaiseTimeout ==
    /\ parallel.phase = "collecting"
    /\ parallel.queue = <<>>
    /\ ~AllYielded
    /\ parallel.expired
    /\ BatchStep([parallel EXCEPT !.phase = "exiting", !.timed_out = TRUE])

\* the with statement is left: ThreadPoolExecutor.__exit__ is
\* shutdown(wait=True), which joins every worker; then the handler returns
\* (lines 671-679, or lines 681-685 after TimeoutError)
ReturnBatch ==
    /\ parallel.phase = "exiting"
    /\ AllDone
    /\ BatchStep([parallel EXCEPT
                    !.phase = "returned",
                    !.result = IF parallel.timed_out
                               THEN BatchError("timed_out")
                               ELSE BatchResult(parallel.task_list,
                                                parallel.results,
                                                parallel.failed)])

S_a == <<"a">>
S_b == <<"b">>

\* the keys of self.agents
AgentLists == { <<>>, <<S_a>>, <<S_a, S_b>> }

TaskStrings ==
    { <<"a",":","x",";","b",":","y",";","a",":","z">>,
      <<"a",":","x",";"," ","z",":","y"," ",";",";","w">>,
      <<"a",":","x",";","a",":","x">>,
      <<" ",";"," ">>,
      <<>> }

NextParallel ==
    \/ \E tasks \in TaskStrings, agents \in AgentLists, fail_fast \in BOOLEAN :
          StartParallel(tasks, agents, fail_fast)
    \/ \E i \in DOMAIN parallel.task_list : FinishTask(i)
    \/ \E order \in Orderings(Range(parallel.done)) : StartCollecting(order)
    \/ Expire
    \/ Wake
    \/ YieldTask
    \/ EndLoop
    \/ RaiseTimeout
    \/ ReturnBatch

SpecParallel == Init /\ [][NextParallel]_vars

\* _substitute_params as a pure function of the template and the values:
\* a head, every string of at most MaxInfixLen characters of InfixChars,
\* and a tail
MaxInfixLen == 3

InfixChars == {"$", "{", "}", "r", " "}

Infixes == UNION {[1..n -> InfixChars] : n \in 0..MaxInfixLen}

TemplateHeads == { <<>>, <<"$","{","r","}">>, <<"a","=","$","{","q","}">>, <<"$","{","r">> }
TemplateTails == { <<>>, <<"$","{","r","}">>, <<"q","}">> }

Templates ==
    {h \o b \o t : h \in TemplateHeads, b \in Infixes, t \in TemplateTails}

SubstituteParams ==
    { EmptyDict,
      [key \in {S_r} |-> <<"X">>],
      [key \in {S_q} |-> <<"$","{","r","}">>],
      [key \in {S_r, S_q} |-> IF key = S_r THEN <<>> ELSE <<"Y", "Z">>] }

InitSubstitute ==
    /\ RegistryInit /\ ParserInit /\ EnhancedInit /\ SequenceInit
    /\ LaterInit
    /\ macro_defs = _load_default_macros(EmptyDict, DefaultMacros)
    /\ mlast = NoLast
    /\ substitution \in
          {[code |-> c, params |-> p, out |-> <<>>, done |-> FALSE] :
              c \in Templates, p \in SubstituteParams}

Substitute ==
    /\ ~substitution.done
    /\ substitution' =
          [substitution EXCEPT !.done = TRUE,
              !.out = _substitute_params(substitution.code, substitution.params)]
    /\ UNCHANGED <<macro_defs, mlast, registryVars, parserVars, enhancedVars,
                   sequenceVars,
                   batchVars, middlewareVars>>

SpecSubstitute == InitSubstitute /\ [][Substitute]_vars

----------------------------------------------------------------------------
(* JumpCodeMiddleware over a squad whose registry holds the core codes,    *)
(* two commands registered from outside and the three macro codes          *)

S_define_macro == <<"d","e","f","i","n","e","_","m","a","c","r","o">>
S_exec_macro   == <<"e","x","e","c","_","m","a","c","r","o">>
S_list_macros  == <<"l","i","s","t","_","m","a","c","r","o","s">>
S_name         == <<"n","a","m","e">>
S_sequence     == <<"s","e","q","u","e","n","c","e">>
S_description  == <<"d","e","s","c","r","i","p","t","i","o","n">>
S_params       == <<"p","a","r","a","m","s">>

\* the descriptors _register_macro_codes registers
MacroCodes ==
    <<JumpCode(S_define_macro, "_define_macro_handler",
               [key \in {S_name, S_sequence, S_description} |->
                   IF key = S_sequence THEN <<"list", <<>> >>
                   ELSE <<"str", <<>> >>],
               <<<<"m","a","c","r","o">>, S_m>>, <<>>),
      JumpCode(S_exec_macro, "_exec_macro_handler",
               [key \in {S_name, S_params} |->
                   IF key = S_params THEN <<"dict", EmptyDict>>
                   ELSE <<"str", <<>> >>],
               <<<<"e","m">>, <<"r","u","n","_","m","a","c","r","o">>>>, <<>>),
      JumpCode(S_list_macros, "_list_macros_handler", EmptyDict,
               <<<<"l","m">>, <<"m","a","c","r","o","s">>>>, <<>>)>>

\* the effects of the handlers of up to MaxEffects steps: the handler of
\* step k does e, every other one returns None
MaxEffects == 3

EffectsAt(k, e) ==
    [i \in 1..MaxEffects |-> IF i = k THEN e ELSE Returns(FALSE, EmptyDict)]

E_boom  == Raises(<<"b","o","o","m">>)
E_start == Returns(TRUE, [key \in {"sequence_start"} |-> <<"int", 5>>])
E_a     == Returns(TRUE, [key \in {"a"} |-> <<"int", 1>>])

EffectLists ==
    { EffectsAt(1, Returns(FALSE, EmptyDict)), EffectsAt(1, E_boom),
      EffectsAt(2, E_boom), EffectsAt(1, E_start), EffectsAt(1, E_a) }

\* the sequences of the macro m of the middleware: every command is a
\* core code or one of the two registered from outside
MiddlewareSequences ==
    { <<At(S_run), At(S_status)>>,
      <<At(S_status), At(S_run), At(S_list)>>,
      <<At(S_run) \o <<":","k","=","$","{","r","}">>, At(S_nope), At(S_status)>> }

MiddlewareParams ==
    { EmptyDict, [key \in {S_r} |-> <<"1">>] }

\* what the user types; none of the commands names a macro code
UserInputs ==
    { <<"@","s","t","a","t","u","s">>, <<"@","n","o","p","e">>, <<"@","r","u","n">>,
      <<"@","@","s","t","a","t","u","s"," ","@","@","l","i","s","t">>,
      <<"d","o"," ","@","@","s","t","a","t","u","s"," ","@","@","l","i","s","t">>,
      <<"d","o"," ","@","@","r","u","n"," ","@","@","n","o","p","e"," ","@","@","s","t","a","t","u","s">>,
      <<"d","o"," ","@","@","@","r","u","n"," ","@","@">>,
      <<"!","m","(",")">>, <<"!","m","(","r","=","1",")">>, <<"!","m","("," ","r"," ","="," ","1"," ",",","x",")">>,
      <<"!","d","e","b","u","g","_","a","l","l","(",")">>, <<"!","d","e","b","u","g","_","a","l","l">>, <<"!","n","o","p","e","(",")">>,
      <<"s","e","e"," ","{","@","s","t","a","t","u","s","}"," ","a","n","d"," ","{","@","r","u","n","}">>,
      <<"h","e","l","l","o"," ","{","@","}">> }

\* calls of execute_sequence a behaviour of the middleware makes
MaxMiddlewareRuns == 1

InitMiddleware ==
    /\ LET r == register_all(EmptyDict, EmptyDict,
                             CoreCodes \o SequenceDescriptors \o MacroCodes)
       IN  codes = r[1] /\ aliases = r[2]
    /\ last = NoLast
    /\ ParserInit /\ EnhancedInit /\ SequenceInit /\ MacroInit
    /\ LaterInit

\* the state a middleware call leaves: the macro table, the sequence
\* memory, and the clock when execute_sequence was called
MiddlewareCall(op, arg, params, effects, r) ==
    /\ macro_defs' = r.macros
    /\ sequence_memory' = r.memory
    /\ clock' = IF r.branch \in {"macro", "sequence"} /\ r.codes # <<>>
                THEN clock + 1 ELSE clock
    /\ mwlast' = Last(op, arg, params, effects,
                      [macros |-> macro_defs, memory |-> sequence_memory], r)
    /\ UNCHANGED <<mlast, substitution, saved, registryVars, parserVars,
                   enhancedVars, batchVars>>

\* middleware._exec_macro_handler({}, name=name, params=params)
ExecMacroHandler(name, params, effects) ==
    /\ clock < MaxMiddlewareRuns
    /\ MiddlewareCall("_exec_macro_handler", name, params, effects,
                      _exec_macro_handler(codes, aliases, macro_defs,
                                          sequence_memory, name, params,
                                          effects, clock))

\* middleware.process_input(user_input)
ProcessInput(user_input, effects) ==
    /\ clock < MaxMiddlewareRuns
    /\ MiddlewareCall("process_input", user_input, EmptyDict, effects,
                      process_input(codes, aliases, macro_defs,
                                    sequence_memory, user_input, effects,
                                    clock))

\* middleware.macros.define_macro(name, sequence)
DefineMiddlewareMacro(sequence) ==
    /\ clock < MaxMiddlewareRuns
    /\ DefineMacro(S_m, sequence, <<>>, FALSE)

NextMiddleware ==
    \/ \E sequence \in MiddlewareSequences : DefineMiddlewareMacro(sequence)
    \/ \E name \in {S_m, S_debug_all, S_nope}, params \in MiddlewareParams,
          effects \in EffectLists :
          ExecMacroHandler(name, params, effects)
    \/ \E user_input \in UserInputs, effects \in EffectLists :
          ProcessInput(user_input, effects)

SpecMiddleware == InitMiddleware /\ [][NextMiddleware]_vars

----------------------------------------------------------------------------
(* Properties of the JumpCodeRegistry                                      *)

FullContext == [key \in {"user", "task"} |-> "v"]

BeforeCodes   == last.before[1]
BeforeAliases == last.before[2]

\* C1: alias equivalence.  For every registered descriptor c and every
\* alias a of its alias list, executing "@a" runs the same handler with
\* the same merged parameters, and ends the same way, as executing "@c".
C1_AliasEquivalence ==
    \A c \in DOMAIN codes : \A i \in DOMAIN codes[c].aliases :
        LET byAlias == execute(codes, aliases, At(codes[c].aliases[i]),
                               FullContext, FALSE)
            byName  == execute(codes, aliases, At(c), FullContext, FALSE)
        IN  /\ byAlias.handler = byName.handler
            /\ byAlias.params = byName.params
            /\ byAlias.error = byName.error

\* C4: required-context validation.  For a descriptor with a non-empty
\* context_required list the handler runs only if every listed key is in
\* the context; otherwise the call fails with a missing-context error that
\* names exactly the missing keys, each once, and no handler runs.
C4_RequiredContext ==
    (last.op = "execute" /\ last.out.error \in {"none", "HandlerError",
                                                "TypeError", "MissingContext"})
    => LET required == BeforeCodes[last.out.code_name].context_required
           absent   == {key \in Range(required) : key \notin DOMAIN last.context}
       IN  /\ last.out.handler # "none" => absent = {}
           /\ absent # {} =>
                 /\ last.out.error = "MissingContext"
                 /\ last.out.handler = "none"
                 /\ Range(last.out.missing) = absent
                 /\ Len(last.out.missing) = Cardinality(absent)
           /\ absent = {} => last.out.error # "MissingContext"

\* a call that failed on a required list of two keys of which the context
\* holds one
C4_Witness ==
    /\ last.op = "execute"
    /\ last.out.error = "MissingContext"
    /\ last.out.missing = <<"user">>
    /\ "task" \in DOMAIN last.context
    /\ Len(BeforeCodes[last.out.code_name].context_required) = 2

\* C5: default-parameter merge.  The parameters the handler runs with have
\* every key of the descriptor's defaults and every parsed key; a key in
\* both has the parsed value; the stored defaults are as before the call.
C5_DefaultMerge ==
    (last.op = "execute" /\ last.out.handler # "none")
    => LET defaults == BeforeCodes[last.out.code_name].parameters
           explicit == _parse_jump_code(last.arg).parameters
       IN  /\ DOMAIN last.out.params = (DOMAIN defaults) \cup (DOMAIN explicit)
           /\ \A key \in DOMAIN explicit : last.out.params[key] = explicit[key]
           /\ \A key \in (DOMAIN defaults) \ (DOMAIN explicit) :
                 last.out.params[key] = defaults[key]
           /\ codes[last.out.code_name].parameters = defaults

\* a handler that ran with k = 2 parsed over the default k = 1 and with
\* the default m kept
C5_Witness ==
    /\ last.op = "execute"
    /\ last.out.handler = "h1"
    /\ S_k \in DOMAIN last.out.params
    /\ last.out.params[S_k] = <<"int", 2>>
    /\ BeforeCodes[last.out.code_name].parameters[S_k] = <<"int", 1>>
    /\ last.out.params[S_m] = <<"str", <<"a">> >>

\* C6: flat namespace, newest registration wins.  After register(d)
\* returns, executing "@n" for n the canonical name or any alias of d runs
\* d's handler, whatever was registered before.
C6_NewestRegistrationWins ==
    (last.op = "register" /\ last.out.raised = "none")
    => \A n \in {last.arg.code} \cup Range(last.arg.aliases) :
          LET r == execute(codes, aliases, At(n), FullContext, FALSE)
          IN  /\ r.code_name = last.arg.code
              /\ r.handler = last.arg.handler

\* C7: unregister is atomic over a descriptor and its aliases.  After
\* unregister(c) returns True neither c nor any alias that resolved to c
\* before the call runs a handler; when c is not a canonical name the call
\* returns False and leaves codes and aliases as they were.
C7_UnregisterAtomic ==
    last.op = "unregister"
    => IF last.arg \in DOMAIN BeforeCodes
       THEN /\ last.out.returned
            /\ \A n \in {last.arg} \cup
                        {a \in DOMAIN BeforeAliases : BeforeAliases[a] = last.arg} :
                  execute(codes, aliases, At(n), FullContext, FALSE).handler = "none"
       ELSE /\ ~last.out.returned
            /\ codes = BeforeCodes
            /\ aliases = BeforeAliases
----------------------------------------------------------------------------
(* Properties of the EnhancedJumpCodeProcessor                             *)

EnhancedPatterns == {ecodes[i][1] : i \in DOMAIN ecodes}

\* C2: unknown command.  Executing a command whose name is neither a
\* registered canonical name nor a registered alias (nor, for the enhanced
\* processor, a macro) fails with an unknown-command error and runs no
\* handler, in JumpCodeRegistry.execute and in execute_async.
C2_UnknownCommand ==
    /\ (last.op = "execute" /\ _parse_jump_code(last.arg).err = "none"
          /\ _parse_jump_code(last.arg).code \notin
                (DOMAIN BeforeCodes) \cup (DOMAIN BeforeAliases))
       => /\ last.out.error = "UnknownJumpCode"
          /\ last.out.handler = "none"
          /\ codes = BeforeCodes /\ aliases = BeforeAliases
    /\ (elast.op = "execute" /\ parse_jump_code(elast.arg).err = "none"
          /\ At(parse_jump_code(elast.arg).code) \notin
                EnhancedPatterns \cup (DOMAIN ealiases)
          /\ parse_jump_code(elast.arg).code \notin DOMAIN macros)
       => /\ elast.out.raised = "none"
          /\ ~elast.out.success
          /\ elast.out.error = "UnknownJumpCode"
          /\ elast.out.invoked = <<>>

\* C3: handler faults are contained.  Whenever the handler resolved for a
\* command raises, the call returns a failure result and no exception
\* leaves it, in JumpCodeRegistry.execute and in execute_async/execute.
C3_HandlerFaultsContained ==
    /\ (last.op = "execute" /\ last.out.error = "HandlerError")
       => ~last.out.raised
    /\ (elast.op = "execute" /\ elast.fault /\ elast.out.invoked # <<>>)
       => /\ elast.out.raised = "none"
          /\ ~elast.out.success

----------------------------------------------------------------------------
(* Properties of the parsers                                               *)

ValueHead == <<"@","x",":","k","=">>
ParamHead == <<"@","x",":">>

StartsWith(s, head) ==
    Len(s) >= Len(head) /\ SubSeq(s, 1, Len(head)) = head

\* the type the coercion order assigns to a value string
ExpectedType(value) ==
    LET dots   == {i \in DOMAIN value : value[i] = "."}
        others == {i \in DOMAIN value : value[i] # "." /\ ~IsDigitChar(value[i])}
        digits == {i \in DOMAIN value : IsDigitChar(value[i])}
    IN  IF lower(value) = S_true \/ lower(value) = S_false THEN "bool"
        ELSE IF digits # {} /\ dots = {} /\ others = {} THEN "int"
        ELSE IF digits # {} /\ Cardinality(dots) = 1 /\ others = {} THEN "float"
        ELSE "str"

\* C8: parameter type coercion is deterministic and total.  For every
\* value string the parser assigns one typed value without raising, by the
\* first matching rule: true/false in any case a boolean, all digits an
\* integer, digits with exactly one decimal point a float, else a string.
C8_CoercionTotal ==
    (parsed.by = "registry" /\ StartsWith(code_string, ValueHead)
        /\ "," \notin Range(code_string))
    => LET value == strip(SubSeq(code_string, Len(ValueHead) + 1, Len(code_string)))
       IN  /\ parsed.res.err = "none"
           /\ DOMAIN parsed.res.parameters = {S_k}
           /\ parsed.res.parameters[S_k][1] = ExpectedType(value)
           /\ ExpectedType(value) = "str" => parsed.res.parameters[S_k][2] = value

\* C9: bare flag tokens.  Every comma-separated token of the parameter
\* list without '=' becomes a parameter whose key is the token and whose
\* value is boolean true (unless another token assigns the same key); a
\* token with '=' is split at its first '=' only.
C9_BareFlagTokens ==
    (parsed.by # "none" /\ parsed.res.err = "none"
        /\ StartsWith(code_string, ParamHead) /\ Len(code_string) > Len(ParamHead))
    => LET tokens == split(SubSeq(code_string, Len(ParamHead) + 1, Len(code_string)), ",")
           KeyOf(t) == IF "=" \in Range(t)
                       THEN strip(SubSeq(t, 1, find(t, "=") - 1)) ELSE strip(t)
       IN  \A i \in DOMAIN tokens :
              /\ KeyOf(tokens[i]) \in DOMAIN parsed.res.parameters
              /\ ("=" \notin Range(tokens[i])
                    /\ \A j \in DOMAIN tokens :
                          "=" \in Range(tokens[j]) => KeyOf(tokens[j]) # KeyOf(tokens[i]))
                 => parsed.res.parameters[KeyOf(tokens[i])] = <<"bool", TRUE>>

\* the grammar "@" name [":" paramlist] with name = [A-Za-z_]\w* over the
\* whole string
WellFormed(s) ==
    /\ Len(s) >= 2
    /\ s[1] = "@"
    /\ \E n \in 2..Len(s) :
          /\ IsIdentifier(SubSeq(s, 2, n))
          /\ n = Len(s) \/ (s[n+1] = ":" /\ Len(s) >= n + 2)

\* C10: parse errors.  Any input that does not start with '@', or whose
\* remainder does not match the grammar over the whole string, fails with
\* a parse error, in _parse_jump_code and in parse_jump_code.
C10_ParseErrors ==
    (parsed.by # "none" /\ ~WellFormed(code_string))
    => parsed.res.err \in {"InvalidFormat", "MissingSigil"}
----------------------------------------------------------------------------
(* Properties of EnhancedAgentSquad.process_jump_code                      *)

\* the text after "@name:" when s has that form, <<>> otherwise
ParameterText(s) ==
    IF find(s, ":") > 0 THEN After(s, find(s, ":")) ELSE <<>>

\* a parameter list that is free text: words separated by blanks, no
\* key=value pair
IsFreeText(text) ==
    /\ " " \in Range(text)
    /\ "=" \notin Range(text)
    /\ "," \notin Range(text)

\* C11: invalid parameter format is an error.  Processing a registered
\* command whose parameter list is free text rather than key=value pairs
\* returns a result with error == True, and the command's handler is not
\* run.
C11_InvalidParameterFormat ==
    (/\ last.op = "process_jump_code"
     /\ IsFreeText(ParameterText(last.arg))
     /\ _parse_jump_code(Before(last.arg, find(last.arg, ":"))).code
           \in (DOMAIN BeforeCodes) \cup (DOMAIN BeforeAliases))
    => /\ last.out.error
       /\ last.out.handler = "none" \/ last.out.kind = "HandlerError"
----------------------------------------------------------------------------
(* Properties of SequentialJumpCodes                                       *)

\* the kind of error step k of the last run ended in ("none" when its
\* handler returned): what registry.execute does for that command in the
\* context the step was given
StepKind(k) ==
    execute(codes, aliases, last.arg[k], last.out.seen[k],
            last.fault[k].raises).error

\* unknown command, missing context, malformed command
CriticalKinds == {"UnknownJumpCode", "MissingContext", "InvalidFormat"}

\* the record the last run stored is the newest of the memory
StoredRecord == sequence_memory[Len(sequence_memory)]

RecordStored ==
    /\ last.out.raised = "none"
    /\ sequence_memory # <<>>
    /\ StoredRecord.sequence = last.arg
    /\ StoredRecord.timestamp = clock - 1
    /\ StoredRecord.results = last.out.results

\* C12: sequential abort on critical failure.  If step k of n commands
\* (k < n-1) fails with an unknown-command, missing-context or
\* malformed-command error, no later command runs, exactly k+1 step
\* records are produced and the stored sequence record has
\* completed = false.
C12_SequentialAbort ==
    last.op = "execute_sequence"
    => \A k \in DOMAIN last.out.results :
          (k < Len(last.arg) /\ StepKind(k) \in CriticalKinds)
          => /\ Len(last.out.results) = k
             /\ RecordStored
             /\ ~StoredRecord.completed

\* C13: a generic handler error never aborts a sequential batch.  When
\* the only failures of a run are handlers that raised, whatever the
\* message, every command of the sequence is executed: one record per
\* input command and completed = true.
C13_HandlerErrorNeverAborts ==
    (/\ last.op = "execute_sequence"
     /\ \A k \in DOMAIN last.out.results :
           StepKind(k) \in {"none", "HandlerError"})
    => /\ Len(last.out.results) = Len(last.arg)
       /\ RecordStored => StoredRecord.completed

\* C14: a sequence record is always recorded.  Every call of
\* execute_sequence, completed or aborted, whatever the handlers return or
\* raise, ends by appending exactly one record to sequence_memory, with
\* completed = (number of recorded steps = number of input commands).
C14_SequenceAlwaysRecorded ==
    last.op = "execute_sequence"
    => /\ RecordStored
       /\ Len(sequence_memory) = Min({Len(last.before) + 1, max_memory_size})
       /\ \A i \in 1..(Len(sequence_memory) - 1) :
             sequence_memory[i] = last.before[Len(last.before) + 1
                                              - Len(sequence_memory) + i]
       /\ StoredRecord.completed
             = (Len(StoredRecord.results) = Len(last.arg))

\* step m of the last run succeeded with a dict result that holds key
Wrote(m, key) ==
    /\ last.out.results[m].success
    /\ last.out.results[m].result.isdict
    /\ key \in DOMAIN last.out.results[m].result.d

\* C15: context merge with protected keys.  Every key of a successful
\* step's dict result other than sequence_id, sequence_position and
\* previous_results is in the context of every later step with that
\* value, until a later step result overwrites it; no step result
\* overwrites the three protected keys, so sequence_id is the same at
\* every step of a run.
C15_ContextMerge ==
    last.op = "execute_sequence"
    => /\ \A i \in DOMAIN last.out.results, j \in DOMAIN last.out.seen :
             (i < j /\ last.out.results[i].success) =>
             \A key \in (DOMAIN last.out.results[i].result.d) \ protected_keys :
                (Wrote(i, key) /\ \A m \in (i+1)..(j-1) : ~Wrote(m, key))
                => /\ key \in DOMAIN last.out.seen[j]
                   /\ last.out.seen[j][key] = last.out.results[i].result.d[key]
       /\ \A j \in DOMAIN last.out.seen :
             /\ last.out.seen[j]["sequence_id"] = <<"str", clock - 1>>
             /\ last.out.seen[j]["sequence_position"] = <<"int", j - 1>>
             /\ last.out.seen[j]["previous_results"]
                   = <<"list", SubSeq(last.out.results, 1, j - 1)>>

\* a run in which a step result tried to overwrite the protected keys and
\* a third step ran with the merged key a and the run's own sequence_id
C15_Witness ==
    /\ last.op = "execute_sequence"
    /\ Len(last.out.seen) = 3
    /\ Wrote(2, "sequence_id") /\ Wrote(2, "a")
    /\ last.out.seen[3]["a"] = <<"int", 2>>
    /\ last.out.seen[2]["a"] = <<"int", 1>>
    /\ last.out.seen[3]["sequence_id"] = last.out.seen[1]["sequence_id"]
    /\ last.out.results[3].success

\* C16: sequence history is a bounded FIFO.  After any number of runs
\* sequence_memory holds at most max_memory_size records; after
\* capacity + k insertions it holds exactly the capacity most recent
\* records in insertion order (the run made at time t stores the record
\* with timestamp t).
C16_MemoryBoundedFifo ==
    /\ Len(sequence_memory) = Min({clock, max_memory_size})
    /\ \A i \in DOMAIN sequence_memory :
          sequence_memory[i].timestamp = clock - Len(sequence_memory) + i - 1

\* the memory after more insertions than its capacity: full, its oldest
\* records gone
C16_Witness ==
    /\ clock >= max_memory_size + 2
    /\ Len(sequence_memory) = max_memory_size
    /\ sequence_memory[1].timestamp >= 2
----------------------------------------------------------------------------
(* Properties of the execution history                                     *)

\* C17: the per-invocation attempt history is bounded.  The history that
\* single executions feed is what get_execution_history returns, and it
\* holds the most recent attempts only: the call returns that list.
C17_HistoryBounded ==
    elast.op = "get_execution_history"
    => /\ elast.out.raised = "none"
       /\ elast.out.returned = ehistory

\* C18: exactly one history entry per single invocation.  Every completed
\* call of execute_async (and of execute) appends one attempt record for
\* the command, whatever the outcome, and returns a JumpCodeResult rather
\* than raising.
C18_OneHistoryEntry ==
    elast.op = "execute"
    => /\ elast.out.raised = "none"
       /\ elast.out.appended = 1
----------------------------------------------------------------------------
(* Properties of JumpCodeMacros                                            *)

\* code[i..e] is an occurrence of ${k}: "${", one or more \w characters,
\* "}"
IsPlaceholder(code, i, e) ==
    /\ i + 3 <= e
    /\ code[i] = "$" /\ code[i + 1] = "{" /\ code[e] = "}"
    /\ \A j \in (i + 2)..(e - 1) : IsWordChar(code[j])

PlaceholderStarts(code) ==
    {i \in DOMAIN code : \E e \in DOMAIN code : IsPlaceholder(code, i, e)}

PlaceholderEnd(code, i) ==
    CHOOSE e \in DOMAIN code : IsPlaceholder(code, i, e)

\* what the occurrence code[i..e] stands for under the supplied values
ValueOf(code, params, i, e) ==
    IF SubSeq(code, i + 2, e - 1) \in DOMAIN params
    THEN params[SubSeq(code, i + 2, e - 1)]
    ELSE SubSeq(code, i, e)

\* code with each occurrence of ${k} replaced by the value supplied for k
\* and left as it is when none is supplied: the last occurrence first,
\* then the text before it
RECURSIVE Substituted(_, _)
SubstitutedLast(code, params, i, e) ==
    Substituted(SubSeq(code, 1, i - 1), params)
    \o ValueOf(code, params, i, e) \o SubSeq(code, e + 1, Len(code))

SubstitutedFrom(code, params, i) ==
    SubstitutedLast(code, params, i, PlaceholderEnd(code, i))

SubstitutedIn(code, params, starts) ==
    IF starts = {} THEN code ELSE SubstitutedFrom(code, params, Max(starts))

Substituted(code, params) ==
    SubstitutedIn(code, params, PlaceholderStarts(code))

\* C19: macro expansion checks declared parameters first.  expand_macro
\* fails with an error listing every declared parameter absent from
\* params, before any substitution; on this failure and on an unknown
\* name the macro table, the templates and usage_count are unchanged.
\* With all declared parameters supplied the result is one expanded
\* command per template, in template order.
C19_ExpandChecksParameters ==
    mlast.op = "expand_macro"
    => IF mlast.arg \notin DOMAIN mlast.before
       THEN /\ mlast.out.raised = "UnknownMacro"
            /\ macro_defs = mlast.before
       ELSE LET macro  == mlast.before[mlast.arg]
                absent == {p \in Range(macro.parameters) :
                              p \notin DOMAIN mlast.context}
            IN  IF absent # {}
                THEN /\ mlast.out.raised = "MissingParameters"
                     /\ Range(mlast.out.missing) = absent
                     /\ mlast.out.expanded = <<>>
                     /\ macro_defs = mlast.before
                ELSE /\ mlast.out.raised = "none"
                     /\ Len(mlast.out.expanded) = Len(macro.sequence)
                     /\ \A i \in DOMAIN macro.sequence :
                           mlast.out.expanded[i]
                              = Substituted(macro.sequence[i], mlast.context)
                     /\ macro_defs[mlast.arg].sequence = macro.sequence

\* an expansion refused for two declared parameters, both absent
C19_Witness ==
    /\ mlast.op = "expand_macro"
    /\ mlast.out.raised = "MissingParameters"
    /\ mlast.out.missing = <<S_r, S_z>>
    /\ mlast.context = EmptyDict
    /\ macro_defs = mlast.before

\* C20: placeholder substitution.  In an expanded command every
\* occurrence of ${k} with k among the supplied values is replaced by that
\* value and every ${k} with k not supplied is left verbatim; an
\* unsupplied placeholder is never an error.
C20_PlaceholderSubstitution ==
    substitution.done
    => substitution.out = Substituted(substitution.code, substitution.params)

\* a template with a supplied and an unsupplied placeholder
C20_Witness ==
    /\ substitution.done
    /\ substitution.code = <<"a","=","$","{","q","}","$","{","r","}">>
    /\ substitution.params = [key \in {S_r} |-> <<"X">>]
    /\ substitution.out = <<"a","=","$","{","q","}","X">>

\* C21: usage_count is a monotonic counter.  In every step of the macro
\* table the usage_count of a name that exists before and after the step
\* does not decrease, and a successful expand_macro of the name increases
\* it by exactly one.
C21_UsageCountMonotonic ==
    [][\A name \in (DOMAIN macro_defs) \cap (DOMAIN macro_defs') :
          /\ macro_defs'[name].usage_count >= macro_defs[name].usage_count
          /\ (/\ mlast'.op = "expand_macro"
              /\ mlast'.arg = name
              /\ mlast'.out.raised = "none")
             => macro_defs'[name].usage_count
                   = macro_defs[name].usage_count + 1]_vars

\* the names of the ${identifier} placeholders of the templates
PlaceholderNamesOf(code) ==
    {SubSeq(code, i + 2, PlaceholderEnd(code, i) - 1) :
        i \in PlaceholderStarts(code)}

PlaceholderNames(sequence) ==
    UNION {PlaceholderNamesOf(sequence[n]) : n \in DOMAIN sequence}

\* C22: parameter inference on define.  A define without a parameters
\* argument declares the union of the ${identifier} names of its
\* templates, so an expand that supplies none of them fails with a
\* missing-parameter error.  A name not matching [A-Za-z_]\w* is rejected
\* and the table is unchanged; a define of an existing name replaces its
\* templates and parameters, and no define touches another name.
C22_ParameterInference ==
    mlast.op \in {"define_macro", "_define_macro_handler"}
    => IF ~IsIdentifier(mlast.arg)
       THEN /\ mlast.out.raised # "none"
            /\ macro_defs = mlast.before
       ELSE /\ mlast.out.raised = "none"
            /\ DOMAIN macro_defs = (DOMAIN mlast.before) \cup {mlast.arg}
            /\ \A name \in (DOMAIN mlast.before) \ {mlast.arg} :
                  macro_defs[name] = mlast.before[name]
            /\ macro_defs[mlast.arg].sequence = mlast.context.sequence
            /\ mlast.context.given
               => macro_defs[mlast.arg].parameters = mlast.context.parameters
            /\ ~mlast.context.given
               => /\ Range(macro_defs[mlast.arg].parameters)
                        = PlaceholderNames(mlast.context.sequence)
                  /\ PlaceholderNames(mlast.context.sequence) # {}
                     => expand_macro(macro_defs, mlast.arg, EmptyDict).raised
                           = "MissingParameters"
----------------------------------------------------------------------------
(* Properties of JumpCodeMiddleware                                        *)

\* the last middleware call ran the expanded sequence of a macro
MacroRan == mwlast.out.branch = "macro" /\ mwlast.out.codes # <<>>

\* the last call of the enhanced processor executed a macro: no handler
\* matches the command and its name is in the macro table
EnhancedMacroRan ==
    /\ elast.op = "execute"
    /\ parse_jump_code(elast.arg).err = "none"
    /\ get_handler(ecodes, ealiases,
                   <<"@">> \o parse_jump_code(elast.arg).code) = "none"
    /\ parse_jump_code(elast.arg).code \in DOMAIN macros

\* C23: macro execution is fail-stop.  The first expanded command whose
\* execution fails ends the macro run: it is the last command executed
\* and the macro's result is a failure.  For execute_macro the run ends in
\* a JumpCodeResult, which is a failure when a command failed.
C23_MacroFailStop ==
    /\ (mwlast.op \in {"_exec_macro_handler", "process_input"} /\ MacroRan)
       => \A k \in DOMAIN mwlast.out.results :
             ~mwlast.out.results[k].success
             => /\ Len(mwlast.out.results) = k
                /\ mwlast.out.error
    /\ EnhancedMacroRan
       => /\ elast.out.raised = "none"
          /\ elast.out.error # "none" => ~elast.out.success

\* the forms of input the command line advertises
SequenceShorthand(s) == Len(s) >= 3 /\ s[1] = "@" /\ s[2] = "@"
SingleCodeInput(s)   == Len(s) >= 2 /\ s[1] = "@" /\ s[2] # "@"
MacroCallInput(s)    ==
    macro_match(s, WordPrefixLen(SubSeq(s, 2, Len(s))))

\* C27: process_input of "@@c1 @@c2 ..." executes c1, c2, ... as one
\* sequential batch and returns a sequence_execution result whose
\* total_count is the number of executed commands; a single "@code" is
\* executed as one command; "!name(k=v,...)" executes the named macro.
C27_SequenceShorthand ==
    mwlast.op = "process_input"
    => /\ SequenceShorthand(mwlast.arg)
          => /\ mwlast.out.branch = "sequence"
             /\ mwlast.out.codes
                    = with_prefix(sequence_codes_from(mwlast.arg, 1))
             /\ mwlast.out.total_count = Len(mwlast.out.results)
       /\ SingleCodeInput(mwlast.arg)
          => /\ mwlast.out.branch = "single"
             /\ Len(mwlast.out.results) = 1
       /\ MacroCallInput(mwlast.arg)
          => mwlast.out.branch = "macro"

----------------------------------------------------------------------------
(* Properties of the history query                                         *)

\* the n most recent records of a history, oldest first
MostRecent(history, n) ==
    SubSeq(history, Len(history) - n + 1, Len(history))

\* C29: get_history(limit) returns the min(limit, length) most recent
\* records in insertion order for every limit >= 0, none for limit = 0,
\* and leaves the history as it was.
C29_MostRecentN ==
    last.op = "get_history"
    => /\ last.out = MostRecent(last.before,
                                IF last.arg < Len(last.before)
                                THEN last.arg ELSE Len(last.before))
       /\ Len(last.out) <= last.arg
       /\ sequence_memory = last.before

----------------------------------------------------------------------------
(* Properties of concurrent appends                                        *)

InMemory(record) ==
    \E i \in DOMAIN sequence_memory : sequence_memory[i] = record

\* C30: appends of concurrent executions are atomic together with the
\* eviction.  The history never holds more records than its capacity, and
\* the record of a call that has finished is in the history (fewer than
\* max_memory_size records were appended after it, so it was not evicted).
C30_ConcurrentAppend ==
    /\ Len(sequence_memory) <= max_memory_size
    /\ \A t \in Threads :
          threads[t].pc = "done" => InMemory(threads[t].record)

----------------------------------------------------------------------------
(* Properties of save_macros and load_macros                               *)

\* the last call loaded the file save_macros wrote
Loaded == mlast.op = "load_macros" /\ mlast.arg \in DOMAIN saved

\* C28: loading the document save_macros wrote yields, for every saved
\* macro name, the saved templates, description and parameters with
\* usage_count 0; the names that are not in the document stay as they
\* were, and no other name appears.
C28_PersistenceRoundTrip ==
    Loaded
    => LET source == saved[mlast.arg].macros
       IN  /\ mlast.out.raised = "none"
           /\ DOMAIN macro_defs = (DOMAIN mlast.before) \cup (DOMAIN source)
           /\ \A name \in DOMAIN source :
                 macro_defs[name]
                     = Macro(source[name].sequence, source[name].description,
                             source[name].parameters, 0)
           /\ \A name \in (DOMAIN mlast.before) \ (DOMAIN source) :
                 macro_defs[name] = mlast.before[name]

\* a load that brought back a macro with escaped characters over a
\* different definition that had been used, added a macro the table no
\* longer had, and left alone a macro defined after the save
C28_Witness ==
    /\ Loaded
    /\ S_m \in DOMAIN mlast.before
    /\ S_m \in DOMAIN saved[mlast.arg].macros
    /\ mlast.before[S_m].usage_count > 0
    /\ saved[mlast.arg].macros[S_m].usage_count > 0
    /\ mlast.before[S_m].sequence # macro_defs[S_m].sequence
    /\ \E i \in DOMAIN macro_defs[S_m].sequence :
          \E j \in DOMAIN macro_defs[S_m].sequence[i] :
             macro_defs[S_m].sequence[i][j] = "\\"
    /\ S_q \in (DOMAIN mlast.before) \ DOMAIN saved[mlast.arg].macros
    /\ S_debug_all \in (DOMAIN saved[mlast.arg].macros) \ DOMAIN mlast.before

----------------------------------------------------------------------------
(* Properties of parallel batches                                          *)

BatchReturned == parallel.phase = "returned" /\ parallel.task_list # <<>>

SomeTaskFails ==
    \E i \in DOMAIN parallel.task_list :
       execute_task(parallel.agents, parallel.task_list[i]).error

\* C24: with fail_fast set, an error result of a completed task ends the
\* batch with failed = true; a batch of 3 tasks of which one fails reports
\* completed < total under every interleaving, and once the failure is
\* seen the call returns without waiting for the tasks still in flight.
C24_ParallelFailFast ==
    /\ (BatchReturned /\ parallel.fail_fast /\ ~parallel.timed_out
        /\ Len(parallel.task_list) = 3 /\ SomeTaskFails)
       => /\ parallel.result.failed
          /\ parallel.result.completed < parallel.result.total
    /\ (parallel.phase = "exiting" /\ parallel.failed) => ENABLED ReturnBatch

\* C25: when the deadline expires, the batch result still reports
\* completed and total, every task yielded before the deadline keeps its
\* real outcome under its own key, and every other task is recorded under
\* its own key as a timeout (or with its real outcome if it had finished).
C25_ParallelTimeoutPartial ==
    (BatchReturned /\ parallel.timed_out)
    => /\ parallel.result.counted
       /\ parallel.result.total = Len(parallel.task_list)
       /\ \A i \in DOMAIN parallel.task_list :
             LET task == parallel.task_list[i]
             IN  /\ task \in DOMAIN parallel.result.results
                 /\ \/ parallel.result.results[task]
                          = execute_task(parallel.agents, task)
                    \/ /\ i \notin parallel.yielded
                       /\ parallel.result.results[task].type = "timeout"

\* the batch of _parallel_handler ran to its end without fail_fast and
\* without a timeout: every task has its outcome under its key
HandlerIsolation ==
    (BatchReturned /\ ~parallel.fail_fast /\ ~parallel.timed_out)
    => /\ ~parallel.result.error
       /\ AllDone
       /\ \A i \in DOMAIN parallel.task_list :
             LET task == parallel.task_list[i]
             IN  /\ task \in DOMAIN parallel.result.results
                 /\ parallel.result.results[task]
                        = execute_task(parallel.agents, task)

\* C26: without fail_fast and without timeout, the error of a task is the
\* outcome of its own slot only; every other task runs to its end and has
\* its outcome in the batch result, and the batch call does not raise:
\* for _parallel_handler and for execute_parallel.
C26_ParallelIsolation ==
    /\ HandlerIsolation
    /\ elast.op = "execute_parallel"
       => /\ elast.out.raised = "none"
          /\ Len(elast.out.results) = Len(elast.arg)
          /\ \A i \in DOMAIN elast.arg :
                elast.out.results[i]
                    = execute_async(ecodes, ealiases, macros, elast.arg[i],
                                    elast.fault, 0)

----------------------------------------------------------------------------
(* Properties of the alias map                                             *)

\* C35: after any sequence of register and unregister calls every key of
\* the alias map points to a canonical name that is in the codes map.
C35_NoDanglingAliases ==
    \A alias \in DOMAIN aliases : aliases[alias] \in DOMAIN codes

\* C36: unregister(c) changes only the entry of c and the aliases that
\* resolve to c: every other canonical entry stays, and every alias that
\* resolved to another descriptor before the call resolves to it after.
C36_UnregisterFrame ==
    last.op = "unregister"
    => LET cs == last.before[1]
           al == last.before[2]
       IN  /\ \A name \in (DOMAIN cs) \ {last.arg} :
                 name \in DOMAIN codes /\ codes[name] = cs[name]
           /\ \A alias \in DOMAIN al :
                 al[alias] # last.arg
                 => alias \in DOMAIN aliases /\ aliases[alias] = al[alias]

\* C37: without fail_fast and without timeout the reported completed
\* count equals the reported total for every task list, task strings that
\* occur more than once included, and results holds one entry for every
\* submitted task.
C37_ParallelAccounting ==
    (BatchReturned /\ ~parallel.fail_fast /\ ~parallel.timed_out)
    => /\ parallel.result.completed = parallel.result.total
       /\ Cardinality(DOMAIN parallel.result.results)
              = Len(parallel.task_list)

----------------------------------------------------------------------------
(* Properties of the step records                                          *)

SequenceRan == last.op = "execute_sequence"

\* the dict a step returned carries an error mark
ErrorMarked(record) ==
    /\ record.success
    /\ record.result.isdict
    /\ "error" \in DOMAIN record.result.d

\* what registry.execute does for step j of the last run
Dispatched(j) ==
    execute(codes, aliases, last.arg[j], last.out.seen[j],
            last.fault[j].raises)

\* C39: a step is recorded with success = False exactly when
\* registry.execute raised for it.  A handler that returns an error-marked
\* dict is recorded with success = True, the sequence goes on after it, and
\* the keys of the dict are in the context the next step is given.  The
\* record of the sequence has success_rate = successes / recorded steps,
\* 0 for the empty sequence, which is completed.
C39_SuccessReflectsRaised ==
    SequenceRan
    => LET results == last.out.results
       IN  /\ \A j \in DOMAIN results :
                 /\ results[j].success = ~Dispatched(j).raised
                 /\ (~Dispatched(j).raised
                     /\ last.fault[j].value.isdict
                     /\ "error" \in DOMAIN last.fault[j].value.d
                     /\ Dispatched(j).handler \notin
                            {"_status_handler", "_help_handler", "_list_handler"})
                    => /\ ErrorMarked(results[j])
                       /\ j < Len(last.arg)
                          => /\ Len(results) > j
                             /\ \A key \in DOMAIN results[j].result.d :
                                   /\ key \in DOMAIN last.out.seen[j + 1]
                                   /\ last.out.seen[j + 1][key]
                                          = results[j].result.d[key]
           /\ last.out.raised = "none"
              => LET record == last.out.memory[Len(last.out.memory)]
                 IN  /\ record.results = results
                     /\ record.success_rate
                            = <<Cardinality({j \in DOMAIN results :
                                                results[j].success}),
                                IF results = <<>> THEN 1 ELSE Len(results)>>
                     /\ last.arg = <<>>
                        => /\ record.success_rate[1] = 0
                           /\ record.completed

\* a run whose first step returned an error-marked dict and whose later
\* steps ran, one of them failing; the record counts the marked step
C39_Witness ==
    /\ SequenceRan
    /\ last.out.raised = "none"
    /\ Len(last.out.results) = 3
    /\ ErrorMarked(last.out.results[1])
    /\ ~last.out.results[2].success
    /\ "error" \in DOMAIN last.out.seen[2]
    /\ last.out.memory[Len(last.out.memory)].success_rate = <<2, 3>>
----------------------------------------------------------------------------
(* Sequences and the enhanced processor side by side                       *)

S_e == <<"e">>

\* the runs of this machine: steps that return and steps that raise
ResultRuns ==
    { <<>>, <<StepStatus>>, <<StepUnknown>>, <<StepSetA, StepNeed>>,
      <<StepStatus, StepBoom, StepStatus>>,
      <<StepErrorDict, StepBoom, StepStatus>>,
      <<StepSetA, StepNeed, StepInvalid>> }

\* the commands handed to the enhanced processor
ResultCommands ==
    { At(S_test), At(S_nope), At(S_m), At(S_e), S_test }

NextResults ==
    \/ \E run \in ResultRuns : ExecuteSequence(run)
    \/ EnhancedRegister(At(S_test), "h1", <<>>)
    \/ \E commands \in MacroBodies : RegisterMacro(S_m, commands)
    \/ \E commands \in {<<>>, <<At(S_e), At(S_e)>>, <<At(S_nope)>>} :
          RegisterMacro(S_e, commands)
    \/ \E code \in ResultCommands, fault \in BOOLEAN :
          EnhancedExecute(code, fault)

SpecResults == InitSequence /\ [][NextResults]_vars

\* execute returned a JumpCodeResult (no exception left the call)
ResultReturned == elast.op = "execute" /\ elast.out.raised = "none"

\* C34: every result carries an error message if and only if success is
\* false: a JumpCodeResult returned by execute_async or execute_macro has
\* error other than None exactly when success is False, and a step record
\* of execute_sequence has an 'error' field exactly when its success is
\* False and a 'result' field exactly when its success is True
C34_ResultWellFormed ==
    /\ ResultReturned
       => ((elast.out.error # "none") <=> ~elast.out.success)
    /\ SequenceRan
       => \A j \in DOMAIN last.out.results :
             LET record == last.out.results[j]
             IN  /\ ("error" \in DOMAIN record) <=> ~record.success
                 /\ ("result" \in DOMAIN record) <=> record.success

\* a macro returned a successful JumpCodeResult after a sequence with a
\* failed and a successful step
C34_Witness ==
    /\ ResultReturned /\ elast.out.success
    /\ SequenceRan
    /\ \E i, j \in DOMAIN last.out.results :
          last.out.results[i].success /\ ~last.out.results[j].success

\* an unknown command returned a failed JumpCodeResult
C34_FailedReturned == ResultReturned /\ ~elast.out.success
----------------------------------------------------------------------------
(* Properties of re-entrant dispatch                                       *)

\* C31: re-entrant dispatch is bounded: executing a command or a macro
\* ends with a result for every macro table, a macro whose command list
\* names the macro itself included; no execution runs into the recursion
\* limit of the interpreter
C31_BoundedReentry ==
    elast.op = "execute" => elast.out.error # "RecursionError"
----------------------------------------------------------------------------
(* Properties of the order of the steps                                    *)

\* C32: execute_sequence runs the commands in input order, one at a time:
\* the step at position i is given sequence_position = i and, under
\* previous_results, the records of exactly the steps 0..i-1; the returned
\* records are a prefix of the input, record j having position j and the
\* j-th input command as its code; a handler that appends to or removes
\* from the previous_results list leaves the results of the engine alone
C32_OrderedSteps ==
    SequenceRan
    => LET results == last.out.results
           seen    == last.out.seen
       IN  /\ Len(seen) = Len(results)
           /\ Len(results) <= Len(last.arg)
           /\ \A j \in DOMAIN seen :
                 /\ seen[j]["sequence_position"] = <<"int", j - 1>>
                 /\ seen[j]["previous_results"]
                       = <<"list", SubSeq(results, 1, j - 1)>>
           /\ \A j \in DOMAIN results :
                 /\ results[j].position = j - 1
                 /\ results[j].code = last.arg[j]

\* a run of three steps whose second handler removed an element of
\* previous_results and whose third appended one
C32_Witness ==
    /\ SequenceRan
    /\ last.out.raised = "none"
    /\ Len(last.out.results) = 3
    /\ last.fault[2].mutation = "pop"
    /\ last.fault[3].mutation = "append"
----------------------------------------------------------------------------
(* EnhancedAgentSquad: the registry after _register_squad_jump_codes and   *)
(* the parallel handler beside it                                          *)

S_assign_task    == <<"a","s","s","i","g","n","_","t","a","s","k">>
S_switch_context == <<"s","w","i","t","c","h","_","c","o","n","t","e","x","t">>
S_list_agents    == <<"l","i","s","t","_","a","g","e","n","t","s">>
S_parallel       == <<"p","a","r","a","l","l","e","l">>
S_agent          == <<"a","g","e","n","t">>
S_task           == <<"t","a","s","k">>
S_tasks          == <<"t","a","s","k","s">>
S_priority       == <<"p","r","i","o","r","i","t","y">>
S_preserve_state == <<"p","r","e","s","e","r","v","e","_","s","t","a","t","e">>
S_timeout        == <<"t","i","m","e","o","u","t">>
S_fail_fast      == <<"f","a","i","l","_","f","a","s","t">>
S_at             == <<"a","t">>
S_sc             == <<"s","c">>
S_ctx            == <<"c","t","x">>
S_la             == <<"l","a">>
S_agents         == <<"a","g","e","n","t","s">>
S_par            == <<"p","a","r">>
S_concurrent     == <<"c","o","n","c","u","r","r","e","n","t">>

\* the descriptors of assign_task (lines 40-46), switch_context (lines
\* 57-64), list_agents (lines 66-73) and parallel (lines 120-127)
SquadCodes ==
    <<JumpCode(S_assign_task, "_assign_task_handler",
               Put(Put(Put(EmptyDict, S_agent, <<"str", <<>> >>),
                       S_task, <<"str", <<>> >>),
                   S_priority, <<"str", <<"n","o","r","m","a","l">> >>),
               <<S_at, S_task>>, <<>>),
      JumpCode(S_switch_context, "_switch_context_handler",
               Put(Put(EmptyDict, S_context, <<"str", <<>> >>),
                   S_preserve_state, <<"bool", TRUE>>),
               <<S_sc, S_ctx>>, <<>>),
      JumpCode(S_list_agents, "_list_agents_handler", EmptyDict,
               <<S_la, S_agents>>, <<>>),
      JumpCode(S_parallel, "_parallel_handler",
               Put(Put(Put(EmptyDict, S_tasks, <<"str", <<>> >>),
                       S_timeout, <<"int", 300>>),
                   S_fail_fast, <<"bool", FALSE>>),
               <<S_par, S_concurrent>>, <<>>)>>

\* EnhancedAgentSquad.__init__ (lines 14-25): the registry holds the core
\* codes and the codes of the squad
InitSquad ==
    /\ LET r == register_all(EmptyDict, EmptyDict, CoreCodes \o SquadCodes)
       IN  codes = r[1] /\ aliases = r[2]
    /\ last = NoLast
    /\ ParserInit /\ EnhancedInit /\ SequenceInit /\ MacroInit
    /\ LaterInit

\* the bare command of every code and alias of the registry of the squad
BareCommands ==
    { At(S_status), At(S_help), At(S_list), At(S_assign_task), At(S_at),
      At(S_switch_context), At(S_sc), At(S_list_agents), At(S_la),
      At(S_parallel), At(S_par) }

SquadCommands ==
    BareCommands
    \cup { At(S_status) \o <<":","c","o","n","t","e","x","t","=","1">>,
           At(S_assign_task) \o <<":","a","g","e","n","t","=","a">>,
           At(S_nope) }

\* the names unregistered from the registry of the squad
SquadUnregisterNames == {S_assign_task, S_list_agents}

\* the batches the squad is handed
SquadTaskStrings ==
    { <<"a",":","x">>, <<"a",":","x",";","z",":","y">>, <<>> }

NextSquad ==
    \/ \E s \in SquadCommands : Execute(s, EmptyDict, FALSE)
    \/ \E code \in SquadUnregisterNames : Unregister(code)
    \/ Register(SquadCodes[1])
    \/ \E tasks \in SquadTaskStrings : StartParallel(tasks, <<S_a>>, FALSE)
    \/ \E i \in DOMAIN parallel.task_list : FinishTask(i)
    \/ \E order \in Orderings(Range(parallel.done)) : StartCollecting(order)
    \/ Expire
    \/ Wake
    \/ YieldTask
    \/ EndLoop
    \/ RaiseTimeout
    \/ ReturnBatch

SpecSquad == InitSquad /\ [][NextSquad]_vars

\* the registry dispatches the command assign_task to its handler
AssignTaskDispatchable ==
    /\ resolve_alias(aliases, S_assign_task) \in DOMAIN codes
    /\ codes[resolve_alias(aliases, S_assign_task)].handler
          = "_assign_task_handler"

\* C33: batches never bypass the registry: a handler that runs on behalf of
\* a parallel batch runs through the dispatch of the registry for its
\* command, so a task of a batch is assigned by _assign_task_handler only
\* while the registry dispatches assign_task to that handler
C33_BatchesDispatch ==
    [][Len(parallel'.assigned) > Len(parallel.assigned)
       => AssignTaskDispatchable]_vars

\* the descriptor a bare command resolves to in the registry before the
\* call
BareName == resolve_alias(last.before[2], Tail(last.arg))

\* C38: every registered command is dispatchable: executing the bare
\* command of a registered descriptor, with its default parameters only and
\* the context it requires, reaches the body of its handler; the keyword
\* call never fails because a parameter is itself named 'context'
C38_Dispatchable ==
    (/\ last.op = "execute"
     /\ last.arg \in BareCommands
     /\ BareName \in DOMAIN last.before[1]
     /\ _validate_context(last.before[1][BareName].context_required,
                          last.context) = <<>>)
    => /\ last.out.error # "TypeError"
       /\ last.out.handler = last.before[1][BareName].handler

====
